---------------------------- MODULE Spec2Model ----------------------------
(***************************************************************************)
(* A model of the ts-parser-thing language implementation: the AST, the    *)
(* shunting-yard operator resolver, the tree-walking evaluator with its    *)
(* environments, and the prelude of the interpreter.                       *)
(*                                                                         *)
(* Conventions                                                             *)
(*  - An immutable.js Map is a sequence of <<key, value>> pairs with       *)
(*    distinct keys, in insertion order.                                   *)
(*  - Either<E, A> is the record [ok |-> a] or [err |-> e] (either.ts).    *)
(*    A JavaScript exception that leaves a call is the third outcome       *)
(*    [throw |-> message].                                                 *)
(*  - The evaluator is written in store-passing style: every evaluation    *)
(*    function takes the store (the names of the interpreter's own         *)
(*    environment node, the only node the code ever mutates) and returns   *)
(*    [r |-> outcome, st |-> store, log |-> events].  The events record    *)
(*    the calls of interpret and applyFunction, and their returns, in the  *)
(*    order they happen.                                                   *)
(*  - A Big (big.js decimal) and a Fraction (fraction.js) are exact        *)
(*    rationals [n |-> numerator, d |-> denominator], reduced, d > 0.      *)
(***************************************************************************)
EXTENDS Integers, Sequences, FiniteSets, TLC

VARIABLES
  rootNames,    \* Interpreter.env.names: the names of the interpreter's own env node
  history,      \* the expressions handed to runAst so far, oldest first
  lastResult,   \* what the last runAst returned (or the exception that left it)
  lastLog,      \* the interpret / applyFunction events of the last runAst
  lines,        \* the lines handed to runLine so far, oldest first
  sentinels,    \* the number of sentinel Errors that Imp's natives have made so far
  moduleCache,  \* execution.ts: moduleCache, the values of the modules by name
  written,      \* the strings handed to IOHandle.writeLine so far, oldest first
  yardOps,      \* shuntingYard: the operator list being resolved
  yardOptions,  \* shuntingYard: the ParseOptions in force
  yardPos,      \* shuntingYard: index of the next item of opsToStream(ops)
  exprStack,    \* shuntingYard: the operand stack
  opStack,      \* shuntingYard: the operator stack
  yardPc,       \* shuntingYard: "idle" | "run" | "done" | "never"
  yardResult,   \* shuntingYard: the expression returned
  thisOptions,  \* StatefulParser.options
  closureOptions, \* makeParser: the `options` variable its closures share
  parserLog,    \* the setOptions calls and the parses of the parser, oldest first
  madeLambda,   \* the Lambda the last makeLambda call returned
  code,         \* the string handed to lex or highlightCode
  includeWs,    \* lex: options.includeWs
  lexed,        \* what lex returned
  highlighted,  \* what highlightCode returned
  combParser,   \* a parser built with the combinators
  combSrc,      \* the token stream it is run on
  combResult,   \* what its parse returned
  ast,          \* the expression handed to unparse
  unparsed,     \* the text unparse returned
  reparsed,     \* what the expression parser returned on the tokens of that text
  multiInput,   \* parseMultiline: the stream it was called with
  multiParsed,  \* what this.parse returns on each rest of that stream
  multiStream,  \* parseMultiline: the `stream` variable of the running call
  multiExpressions, \* parseMultiline: the `expressions` array of the running call
  multiResult,  \* parseMultiline: what the call returned
  replState,    \* readEvalPrintLoop: "reading" | "asking" | "exited"
  replIn,       \* the lines, answers and signals the REPL received, oldest first
  replOut       \* what the REPL wrote to the output, oldest first

vars == <<rootNames, history, lastResult, lastLog, lines, sentinels, moduleCache, written,
          yardOps, yardOptions, yardPos, exprStack, opStack, yardPc, yardResult,
          thisOptions, closureOptions, parserLog, madeLambda,
          code, includeWs, lexed, highlighted, combParser, combSrc, combResult,
          ast, unparsed, reparsed,
          multiInput, multiParsed, multiStream, multiExpressions, multiResult,
          replState, replIn, replOut>>

interpVars ==
  <<rootNames, history, lastResult, lastLog, lines, sentinels, moduleCache, written>>
yardVars == <<yardOps, yardOptions, yardPos, exprStack, opStack, yardPc, yardResult>>
parserVars == <<thisOptions, closureOptions, parserLog>>

\* what the evaluator's, the resolver's and the parser's steps leave alone
lexerVars == <<code, includeWs, lexed, highlighted>>
combVars == <<combParser, combSrc, combResult>>
unparseVars == <<ast, unparsed, reparsed>>
multilineVars == <<multiInput, multiParsed, multiStream, multiExpressions, multiResult>>
replVars == <<replState, replIn, replOut>>

exceptInterp ==
  <<yardVars, parserVars, madeLambda, lexerVars, combVars, unparseVars,
    multilineVars, replVars>>
exceptYard ==
  <<interpVars, parserVars, madeLambda, lexerVars, combVars, unparseVars,
    multilineVars, replVars>>
exceptParser ==
  <<interpVars, yardVars, madeLambda, lexerVars, combVars, unparseVars,
    multilineVars, replVars>>
exceptLambda ==
  <<interpVars, yardVars, parserVars, lexerVars, combVars, unparseVars,
    multilineVars, replVars>>
exceptLexer ==
  <<interpVars, yardVars, parserVars, madeLambda, combVars, unparseVars,
    multilineVars, replVars>>
exceptComb ==
  <<interpVars, yardVars, parserVars, madeLambda, lexerVars, unparseVars,
    multilineVars, replVars>>
exceptMultiline ==
  <<interpVars, yardVars, parserVars, madeLambda, lexerVars, combVars, unparseVars, replVars>>
exceptRepl ==
  <<yardVars, parserVars, madeLambda, lexerVars, combVars, unparseVars, multilineVars>>
exceptUnparse ==
  <<interpVars, yardVars, parserVars, madeLambda, lexerVars, combVars,
    multilineVars, replVars>>

(***************************************************************************)
(* Generic helpers                                                         *)
(***************************************************************************)
Range(s) == {s[i] : i \in 1..Len(s)}

Last(s) == s[Len(s)]

Front(s) == SubSeq(s, 1, Len(s) - 1)

Abs(x) == IF x < 0 THEN -x ELSE x

RECURSIVE Gcd(_, _)
Gcd(a, b) == IF b = 0 THEN a ELSE Gcd(b, a % b)

RECURSIVE IntPow(_, _)
\* b^k for a natural k
IntPow(b, k) == IF k = 0 THEN 1 ELSE b * IntPow(b, k - 1)

(***************************************************************************)
(* either.ts                                                               *)
(***************************************************************************)
Ok(a) == [ok |-> a]

Err(e) == [err |-> e]

Throw(msg) == [throw |-> msg]

IsOk(r) == "ok" \in DOMAIN r

IsErr(r) == "err" \in DOMAIN r

IsThrow(r) == "throw" \in DOMAIN r

(***************************************************************************)
(* immutable.js Map, as a sequence of <<key, value>> pairs                 *)
(***************************************************************************)
undefined == [tag |-> "undefined"]

MapKeys(m) == [i \in 1..Len(m) |-> m[i][1]]

MapHas(m, k) == \E i \in 1..Len(m) : m[i][1] = k

MapGet(m, k) ==
  IF MapHas(m, k) THEN m[CHOOSE i \in 1..Len(m) : m[i][1] = k][2] ELSE undefined

\* Map.set: an existing key keeps its place, a new key goes last
MapSet(m, k, v) ==
  IF MapHas(m, k)
    THEN [i \in 1..Len(m) |-> IF m[i][1] = k THEN <<k, v>> ELSE m[i]]
    ELSE Append(m, <<k, v>>)

MapDelete(m, k) == SelectSeq(m, LAMBDA p : p[1] # k)

RECURSIVE MapFromPairs(_)
\* Map(pairs): the pairs are set one after the other, so a repeated key
\* keeps its first place and its last value
MapFromPairs(pairs) ==
  IF pairs = <<>> THEN <<>>
  ELSE LET p == Last(pairs) IN MapSet(MapFromPairs(Front(pairs)), p[1], p[2])

(***************************************************************************)
(* big.js / fraction.js numbers as exact rationals                         *)
(***************************************************************************)
\* the reduced rational n/d (d # 0)
Rat(n, d) ==
  LET g == Gcd(Abs(n), Abs(d))
      s == IF d < 0 THEN -1 ELSE 1
  IN [n |-> (s * n) \div g, d |-> (s * d) \div g]

Big(n) == Rat(n, 1)

RatEq(a, b) == a.n * b.d = b.n * a.d

RatLt(a, b) == a.n * b.d < b.n * a.d

RatAdd(a, b) == Rat(a.n * b.d + b.n * a.d, a.d * b.d)

RatMul(a, b) == Rat(a.n * b.n, a.d * b.d)

\* a / b for b # 0
RatDiv(a, b) == Rat(a.n * b.d, a.d * b.n)

\* Big.round().eq(self): the number is an integer
RatIsInt(a) == a.d = 1

\* Big.toNumber() of an integer
RatToInt(a) == a.n

\* JavaScript's remainder: the sign of the result is the sign of the dividend
JsRem(a, m) == IF a >= 0 THEN a % m ELSE -((-a) % m)

\* Big.pow(k), k an integer: x^k, and 1 / x^(-k) for k < 0, where big.js throws
\* "[big.js] Division by zero" when x = 0
BigPow(x, k) ==
  IF k >= 0 THEN Ok(Rat(IntPow(x.n, k), IntPow(x.d, k)))
  ELSE IF x.n = 0 THEN Throw("[big.js] Division by zero")
  ELSE Ok(Rat(IntPow(x.d, -k), IntPow(x.n, -k)))

(***************************************************************************)
(* units.ts: dimensions and the Unit class                                 *)
(***************************************************************************)
dimensionNames == {"T", "L", "M", "I", "Th", "N", "J"}

neutralDimension == [name \in dimensionNames |-> Rat(0, 1)]

dimEq(d1, d2) == \A name \in dimensionNames : RatEq(d1[name], d2[name])

\* a Partial<Dimension> is a function on some of the dimension names
populateDim(dim) ==
  [name \in dimensionNames |-> IF name \in DOMAIN dim THEN dim[name] ELSE Rat(0, 1)]

\* new Unit(value, dim)
NewUnit(value, dim) == [value |-> value, dim |-> populateDim(dim)]

null == [tag |-> "null"]

\* makeUnit: a Unit as it is, a bare number as a Unit of the neutral dimension
makeUnit(src) == IF "dim" \in DOMAIN src THEN src ELSE NewUnit(src, neutralDimension)

\* Unit.add
UnitAdd(this, other) ==
  LET unit == makeUnit(other)
  IN IF ~dimEq(this.dim, unit.dim) THEN null
     ELSE NewUnit(RatAdd(this.value, unit.value), this.dim)

\* Unit.pow: null, the new Unit, or the exception of Big.pow
UnitPow(this, other) ==
  LET unit == makeUnit(other) IN
  IF \/ RatLt(this.value, Big(0))
     \/ (RatEq(this.value, Big(0)) /\ RatEq(unit.value, Big(0)))
     \/ ~dimEq(unit.dim, neutralDimension)
     \/ ~RatIsInt(unit.value)
    THEN null
    ELSE LET k == RatToInt(unit.value)
             newDim == [name \in dimensionNames |-> RatMul(this.dim[name], Big(k))]
             v == BigPow(this.value, k)
         IN IF IsThrow(v) THEN v ELSE NewUnit(v.ok, newDim)

\* the exact rational r >= 0 with r^k = x, for x > 0 and k > 0, when there is one
\* with numerator and denominator up to those of x
ExactRoots(x, k) ==
  {r \in {Rat(p, q) : p \in 0..x.n, q \in 1..x.d} : RatEq(Rat(IntPow(r.n, k), IntPow(r.d, k)), x)}

\* Math.pow(x, 1 / k) for an integer k # 0: a number, NaN or Infinity.  A
\* positive x without an exact rational root yields a double that is only
\* near the root; it is kept symbolically.
MathPowInverse(x, k) ==
  IF RatLt(x, Big(0))
    THEN IF k = 1 THEN [num |-> x]
         ELSE IF k = -1 THEN [num |-> RatDiv(Big(1), x)]
         ELSE [nan |-> TRUE]
  ELSE IF RatEq(x, Big(0))
    THEN IF k > 0 THEN [num |-> Big(0)] ELSE [infinity |-> TRUE]
  ELSE LET rs == ExactRoots(x, Abs(k))
       IN IF rs = {} THEN [num |-> [approxRootOf |-> x, degree |-> k]]
          ELSE LET r == CHOOSE r \in rs : TRUE
               IN [num |-> IF k > 0 THEN r ELSE RatDiv(Big(1), r)]

\* Unit.root: null, the new Unit, or the exception of new Big(NaN | Infinity)
UnitRoot(this, other) ==
  LET unit == makeUnit(other) IN
  IF \/ RatEq(unit.value, Big(0))
     \/ ~dimEq(unit.dim, neutralDimension)
     \/ ~RatIsInt(unit.value)
     \/ (RatLt(this.value, Big(0)) /\ JsRem(RatToInt(unit.value), 2) # 0)
    THEN null
    ELSE LET k == RatToInt(unit.value)
             newDim == [name \in dimensionNames |-> RatDiv(this.dim[name], Big(k))]
             v == MathPowInverse(this.value, k)
         IN IF "num" \in DOMAIN v THEN NewUnit(v.num, newDim)
            ELSE Throw("[big.js] Invalid number")

\* Unit.equals
UnitEquals(this, other) ==
  LET unit == makeUnit(other) IN dimEq(this.dim, unit.dim) /\ RatEq(this.value, unit.value)

(***************************************************************************)
(* ast.ts: expressions, lambda parameters, operators, parse options        *)
(***************************************************************************)
Name(name) == [tag |-> "Name", name |-> name]

App(fun, arg) == [tag |-> "App", fun |-> fun, arg |-> arg]

Dec(big) == [tag |-> "Dec", dec |-> big]

AstStr(s) == [tag |-> "Str", str |-> s]

AstSymbol(s) == [tag |-> "Symbol", symbol |-> s]

\* pairs: a sequence of <<key, expression>>
AstTable(pairs) == [tag |-> "Table", pairs |-> pairs]

Cond(ifE, thenE, elseE) == [tag |-> "Cond", if |-> ifE, then |-> thenE, else |-> elseE]

ArgSingle(name) == [tag |-> "ArgSingle", single |-> name]

\* entries: a sequence of <<source key, LamArg>>
ArgTable(entries) == [tag |-> "ArgTable", table |-> entries]

InfixOp(name) == [tag |-> "InfixOp", name |-> name]

ExprOp(expr) == [tag |-> "ExprOp", expr |-> expr]

Prio(strength, direction) == [strength |-> strength, direction |-> direction]

RECURSIVE extractNamesFromArg(_)
extractNamesFromArg(arg) ==
  IF arg.tag = "ArgSingle" THEN <<arg.single>>
  ELSE IF arg.table = <<>> THEN <<>>
  ELSE extractNamesFromArg(Head(arg.table)[2])
       \o extractNamesFromArg(ArgTable(Tail(arg.table)))

includes(arr, x) == \E i \in 1..Len(arr) : arr[i] = x

RECURSIVE _getCapturedNames(_, _)
_getCapturedNames(expr, exclude) ==
  CASE expr.tag = "Name" -> IF includes(exclude, expr.name) THEN <<>> ELSE <<expr.name>>
    [] expr.tag = "App" ->
         _getCapturedNames(expr.fun, exclude) \o _getCapturedNames(expr.arg, exclude)
    [] expr.tag \in {"Dec", "Str", "Symbol"} -> <<>>
    [] expr.tag = "Table" ->
         IF expr.pairs = <<>> THEN <<>>
         ELSE _getCapturedNames(Head(expr.pairs)[2], exclude)
              \o _getCapturedNames(AstTable(Tail(expr.pairs)), exclude)
    [] expr.tag = "Lam" ->
         SelectSeq(expr.capturedNames, LAMBDA name : ~includes(exclude, name))
    [] expr.tag = "Cond" ->
         _getCapturedNames(expr.if, exclude)
         \o _getCapturedNames(expr.then, exclude)
         \o _getCapturedNames(expr.else, exclude)

RECURSIVE unique(_)
\* [...new Set(arr)]: the first occurrence of each element, in order
unique(arr) ==
  IF arr = <<>> THEN <<>>
  ELSE LET front == unique(Front(arr))
       IN IF includes(front, Last(arr)) THEN front ELSE Append(front, Last(arr))

\* the captured names as they are collected, repeats included
getCapturedNamesWithRepeats(expr, exclude) == _getCapturedNames(expr, exclude)

getCapturedNames(expr, exclude) == unique(_getCapturedNames(expr, exclude))

makeLambda(arg, expr) ==
  [tag |-> "Lam", arg |-> arg, expr |-> expr,
   capturedNames |-> getCapturedNames(expr, extractNamesFromArg(arg))]

(***************************************************************************)
(* runtime.ts: values, errors, environments                                *)
(***************************************************************************)
Str(str) == [tag |-> "Str", str |-> str]

Symbol(symbol) == [tag |-> "Symbol", symbol |-> symbol]

Bool(bool) == [tag |-> "Bool", bool |-> bool]

\* table: a Map
Table(table) == [tag |-> "Table", table |-> table]

Fun(fun, closure) == [tag |-> "Fun", fun |-> fun, closure |-> closure]

\* the value wrapping a Unit object
UnitV(unit) == [tag |-> "Unit", unit |-> unit]

\* A native function is named by the place of the prelude that creates it
\* (native) together with the values its JavaScript closure holds (cap).
Native(native, cap) == [tag |-> "Native", native |-> native, cap |-> cap]

UnexpectedType(expected, got) == [tag |-> "UnexpectedType", expected |-> expected, got |-> got]

MissingKey(key) == [tag |-> "MissingKey", key |-> key]

UndefinedName(name) == [tag |-> "UndefinedName", name |-> name]

DimensionMismatch(left, right) == [tag |-> "DimensionMismatch", left |-> left, right |-> right]

NotInDomain(value, explanation) ==
  [tag |-> "NotInDomain", value |-> value, explanation |-> explanation]

\* Env.  The interpreter's own node (Interpreter.env) is the one node whose
\* names are ever reassigned; it is held by reference and its names live in
\* the store.  Every other node is created by applyFunction and never
\* changes, so it is held by value.
RootEnv == [ref |-> "root"]

ChildEnv(parent, names) == [parent |-> parent, names |-> names]

IsRootEnv(env) == "ref" \in DOMAIN env

envNames(env, st) == IF IsRootEnv(env) THEN st.names ELSE env.names

\* the parentEnv of the Interpreter constructor defaults to null
envParent(env) == IF IsRootEnv(env) THEN null ELSE env.parent

RECURSIVE tryLookupName(_, _, _)
tryLookupName(name, env, st) ==
  LET rv == MapGet(envNames(env, st), name)
  IN IF rv # undefined THEN rv
     ELSE IF envParent(env) = null THEN null
     ELSE tryLookupName(name, envParent(env), st)

asUnit(v) == IF v.tag = "Unit" THEN Ok(v.unit) ELSE Err(UnexpectedType("unit", v))

asSymb(v) == IF v.tag = "Symbol" THEN Ok(v.symbol) ELSE Err(UnexpectedType("symbol", v))

asAny(v) == Ok(v)

(***************************************************************************)
(* runtime.ts: the evaluator                                               *)
(***************************************************************************)
\* what an evaluation function hands back: the outcome, the store after it,
\* and the events it produced
Ret(r, st, log) == [r |-> r, st |-> st, log |-> log]

RECURSIVE interpret(_, _, _)
RECURSIVE applyFunction(_, _, _, _)
RECURSIVE bindNames(_, _, _, _)
RECURSIVE callNative(_, _, _, _)

\* the outcome and store of rv, behind the events that came before it
After(log, rv) == [r |-> rv.r, st |-> rv.st, log |-> log \o rv.log]

RECURSIVE interpretPairs(_, _, _, _)
\* interpret, case 'table': the loop over the remaining pairs, rv so far
interpretPairs(pairs, rv, env, st) ==
  LET withSubresult(subresult) ==
        IF ~IsOk(subresult.r) THEN subresult
        ELSE After(subresult.log,
                   interpretPairs(Tail(pairs),
                                  Append(rv, <<Head(pairs)[1], subresult.r.ok>>),
                                  env, subresult.st))
  IN IF pairs = <<>> THEN Ret(Ok(Table(MapFromPairs(rv))), st, <<>>)
     ELSE withSubresult(interpret(Head(pairs)[2], env, st))

\* an interpret of 'app' that evaluates the argument before the function
interpretAppArgFirst(expr, env, st) ==
  LET withFun(arg, fun) ==
        IF ~IsOk(fun.r) THEN After(arg.log, fun)
        ELSE After(arg.log \o fun.log, applyFunction(fun.r.ok, arg.r.ok, env, fun.st))
      withArg(arg) ==
        IF ~IsOk(arg.r) THEN arg
        ELSE withFun(arg, interpret(expr.fun, env, arg.st))
  IN withArg(interpret(expr.arg, env, st))

\* interpret, case 'app'
interpretApp(expr, env, st) ==
  LET withArg(fun, arg) ==
        IF ~IsOk(arg.r) THEN After(fun.log, arg)
        ELSE After(fun.log \o arg.log, applyFunction(fun.r.ok, arg.r.ok, env, arg.st))
      withFun(fun) ==
        IF ~IsOk(fun.r) THEN fun
        ELSE withArg(fun, interpret(expr.arg, env, fun.st))
  IN withFun(interpret(expr.fun, env, st))

\* interpret, case 'lam'
interpretLam(expr, env) == Fun(expr, env)

ifThenElse(ifExpr, thenExpr, elseExpr, env, st) ==
  LET withCondition(condition) ==
        IF ~IsOk(condition.r) THEN condition
        ELSE IF condition.r.ok.tag # "Bool"
          THEN Ret(Err(UnexpectedType("boolean", condition.r.ok)),
                   condition.st, condition.log)
        ELSE After(condition.log,
                   interpret(IF condition.r.ok.bool THEN thenExpr ELSE elseExpr,
                             env, condition.st))
  IN withCondition(interpret(ifExpr, env, st))

\* interpret, case 'name'
interpretName(expr, env, st) ==
  LET withResult(result) ==
        IF result = null THEN Ret(Err(UndefinedName(expr.name)), st, <<>>)
        ELSE Ret(Ok(result), st, <<>>)
  IN withResult(tryLookupName(expr.name, env, st))

\* rv between the event that opens an evaluation and the one that closes it
InterpretEvents(expr, env, rv) ==
  [r |-> rv.r, st |-> rv.st,
   log |-> <<[ev |-> "interpret", expr |-> expr, env |-> env]>>
           \o rv.log
           \o <<[ev |-> "return", expr |-> expr, r |-> rv.r]>>]

interpret(expr, env, st) ==
  InterpretEvents(expr, env,
    CASE expr.tag = "Dec" -> Ret(Ok(UnitV(NewUnit(expr.dec, neutralDimension))), st, <<>>)
      [] expr.tag = "Str" -> Ret(Ok(Str(expr.str)), st, <<>>)
      [] expr.tag = "Symbol" -> Ret(Ok(Symbol(expr.symbol)), st, <<>>)
      [] expr.tag = "Table" -> interpretPairs(expr.pairs, <<>>, env, st)
      [] expr.tag = "Name" -> interpretName(expr, env, st)
      [] expr.tag = "App" -> interpretApp(expr, env, st)
      [] expr.tag = "Lam" -> Ret(Ok(interpretLam(expr, env)), st, <<>>)
      [] expr.tag = "Cond" -> ifThenElse(expr.if, expr.then, expr.else, env, st))

RECURSIVE bindTable(_, _, _, _, _)
\* a bindTable that reads the argument as a table instead of calling it
bindTableByLookup(entries, rv, argument, env, st) ==
  LET src == Head(entries)[1]
      target == Head(entries)[2]
      withNewBindings(log, newBindings) ==
        IF ~IsOk(newBindings.r) THEN After(log, newBindings)
        ELSE After(log \o newBindings.log,
                   bindTable(Tail(entries), rv \o newBindings.r.ok,
                             argument, env, newBindings.st))
      withExtracted(extracted) ==
        IF ~IsOk(extracted.r) THEN extracted
        ELSE withNewBindings(extracted.log,
                             bindNames(target, extracted.r.ok, env, extracted.st))
  IN IF entries = <<>> THEN Ret(Ok(rv), st, <<>>)
     ELSE withExtracted(
            IF argument.tag = "Table"
              THEN applyFunction(argument, Symbol(src), env, st)
              ELSE Ret(Err(UnexpectedType("table", argument)), st, <<>>))

\* bindNames, the loop over the remaining entries of a table parameter, rv so far
bindTable(entries, rv, argument, env, st) ==
  LET src == Head(entries)[1]
      target == Head(entries)[2]
      withNewBindings(log, newBindings) ==
        IF ~IsOk(newBindings.r) THEN After(log, newBindings)
        ELSE After(log \o newBindings.log,
                   bindTable(Tail(entries), rv \o newBindings.r.ok,
                             argument, env, newBindings.st))
      withExtracted(extracted) ==
        IF ~IsOk(extracted.r) THEN extracted
        ELSE withNewBindings(extracted.log,
                             bindNames(target, extracted.r.ok, env, extracted.st))
  IN IF entries = <<>> THEN Ret(Ok(rv), st, <<>>)
     ELSE withExtracted(applyFunction(argument, Symbol(src), env, st))

bindNames(declaration, argument, env, st) ==
  IF declaration.tag = "ArgSingle"
    THEN Ret(Ok(<< <<declaration.single, argument>> >>), st, <<>>)
    ELSE bindTable(declaration.table, <<>>, argument, env, st)

\* an applyFunction whose body environment hangs off the caller's environment
applyFunDynamicScope(fun, arg, env, st) ==
  LET withBoundNames(boundNames) ==
        IF ~IsOk(boundNames.r) THEN boundNames
        ELSE After(boundNames.log,
                   interpret(fun.fun.expr,
                             ChildEnv(env, MapFromPairs(boundNames.r.ok)),
                             boundNames.st))
  IN withBoundNames(bindNames(fun.fun.arg, arg, env, st))

\* applyFunction, case 'fun'
applyFun(fun, arg, env, st) ==
  LET withBoundNames(boundNames) ==
        IF ~IsOk(boundNames.r) THEN boundNames
        ELSE After(boundNames.log,
                   interpret(fun.fun.expr,
                             ChildEnv(fun.closure, MapFromPairs(boundNames.r.ok)),
                             boundNames.st))
  IN withBoundNames(bindNames(fun.fun.arg, arg, env, st))

\* applyFunction, case 'table'
applyTable(fun, arg) ==
  LET withRv(rv) == IF rv = undefined THEN Err(MissingKey(arg.symbol)) ELSE Ok(rv)
  IN IF arg.tag # "Symbol" THEN Err(UnexpectedType("symbol", arg))
     ELSE withRv(MapGet(fun.table, arg.symbol))

\* rv between the event that opens a call and the one that closes it
ApplyEvents(fun, arg, rv) ==
  [r |-> rv.r, st |-> rv.st,
   log |-> <<[ev |-> "apply", fun |-> fun, arg |-> arg]>>
           \o rv.log
           \o <<[ev |-> "applied", r |-> rv.r]>>]

applyFunction(fun, arg, env, st) ==
  ApplyEvents(fun, arg,
    CASE fun.tag = "Native" -> callNative(fun, arg, env, st)
      [] fun.tag = "Fun" -> applyFun(fun, arg, env, st)
      [] fun.tag = "Table" -> Ret(applyTable(fun, arg), st, <<>>)
      [] OTHER -> Ret(Err(UnexpectedType("table|function|native", fun)), st, <<>>))

(***************************************************************************)
(* interpreter.ts: the prelude (makeEnv) and the Interpreter               *)
(***************************************************************************)
\* _binOp(name, first, second, f): the curried native (name)
_binOp(name) == Native("binOp", <<name>>)

asNeutral(v) ==
  LET a == asUnit(v)
  IN IF ~IsOk(a) THEN a
     ELSE IF dimEq(a.ok.dim, neutralDimension) THEN Ok(a.ok.value)
     ELSE Err(DimensionMismatch(a.ok.dim, neutralDimension))

\* the tags of Value in the order of JavaScript's string comparison
tagRank(tag) ==
  CASE tag = "Bool" -> 1 [] tag = "Fun" -> 2 [] tag = "Native" -> 3 [] tag = "Str" -> 4
    [] tag = "Symbol" -> 5 [] tag = "Table" -> 6 [] tag = "Unit" -> 7

\* [...aTable.keys()].sort() !== [...bTable.keys()].sort(): each side is an
\* array created by this very expression, and !== on two arrays compares
\* their identity, never their contents
sortedKeysNotIdentical(aTable, bTable) == TRUE

RECURSIVE _weakEquality(_, _)
RECURSIVE weakEqualityEntries(_, _)
\* _weakEquality, case Table: the loop over the remaining entries of aTable
weakEqualityEntries(entries, bTable) ==
  IF entries = <<>> THEN TRUE
  ELSE IF ~_weakEquality(Head(entries)[2], MapGet(bTable, Head(entries)[1])) THEN FALSE
  ELSE weakEqualityEntries(Tail(entries), bTable)

_weakEquality(a, b) ==
  IF tagRank(a.tag) > tagRank(b.tag) THEN _weakEquality(b, a)
  ELSE CASE a.tag = "Str" -> b.tag = "Str" /\ b.str = a.str
         [] a.tag = "Unit" -> b.tag = "Unit" /\ UnitEquals(a.unit, b.unit)
         [] a.tag = "Symbol" -> b.tag = "Symbol" /\ b.symbol = a.symbol
         [] a.tag = "Bool" -> b.tag = "Bool" /\ b.bool = a.bool
         [] a.tag = "Table" ->
              IF b.tag # "Table" THEN FALSE
              ELSE IF sortedKeysNotIdentical(a.table, b.table) THEN FALSE
              ELSE weakEqualityEntries(a.table, b.table)
         [] OTHER -> FALSE

\* a setName that leaves a name that is already bound as it is
setNameKeepFirst(st, name, value) ==
  IF MapHas(st.names, name) THEN st
  ELSE [st EXCEPT !.names = MapSet(st.names, name, value)]

\* Interpreter.setName
setName(st, name, value) == [st EXCEPT !.names = MapSet(st.names, name, value)]

\* Interpreter.deleteName
deleteName(st, name) == [st EXCEPT !.names = MapDelete(st.names, name)]

\* makeEnv, '+'
preludeAdd(a, b) ==
  LET rv == UnitAdd(a, b)
  IN IF rv = null THEN Err(DimensionMismatch(a.dim, b.dim)) ELSE Ok(UnitV(rv))

\* makeEnv, '^': a is a Unit, b the Big that asNeutral let through
preludePow(a, b) ==
  LET rv == UnitPow(a, b)
  IN IF rv = null
       THEN Err(NotInDomain(
              Table(<< <<"x", UnitV(a)>>, <<"y", UnitV(makeUnit(b))>> >>),
              "can only compute x^y if y is an integer neutral unit and x is not negative"))
     ELSE IF IsThrow(rv) THEN rv
     ELSE Ok(UnitV(rv))

\* makeEnv, '^/'
preludeRoot(a, b) ==
  LET rv == UnitRoot(a, b)
  IN IF rv = null
       THEN Err(NotInDomain(
              Table(<< <<"x", UnitV(a)>>, <<"y", UnitV(makeUnit(b))>> >>),
              "can only compute x^(1/y) if y is a non-zero integer neutral unit and x is not negative (unless y is odd)"))
     ELSE IF IsThrow(rv) THEN rv
     ELSE Ok(UnitV(rv))

\* makeEnv, '~='
preludeWeakEq(a, b) == Ok(Bool(_weakEquality(a, b)))

\* makeEnv, '.=': h.setName(name, value), then {ok: value}
preludeAssign(name, value, st) == Ret(Ok(value), setName(st, name, value), <<>>)

\* makeEnv, _fallback: the callable (primaryV |? fallbackV)
_fallback(primaryV, fallbackV) == Ok(Native("fallback", <<primaryV, fallbackV>>))

\* a fallback that turns to fallbackV on every error of primaryV
fallbackFunOnAnyError(primaryV, fallbackV, key, env, st) ==
  LET withPrimaryResult(primaryResult) ==
        IF IsOk(primaryResult.r) \/ IsThrow(primaryResult.r) THEN primaryResult
        ELSE After(primaryResult.log,
                   applyFunction(fallbackV, key, env, primaryResult.st))
  IN withPrimaryResult(applyFunction(primaryV, key, env, st))

\* the fun of the callable that _fallback returns
fallbackFun(primaryV, fallbackV, key, env, st) ==
  LET withPrimaryResult(primaryResult) ==
        IF IsOk(primaryResult.r) \/ IsThrow(primaryResult.r) THEN primaryResult
        ELSE IF primaryResult.r.err.tag # "MissingKey" THEN primaryResult
        ELSE After(primaryResult.log,
                   applyFunction(fallbackV, key, env, primaryResult.st))
  IN withPrimaryResult(applyFunction(primaryV, key, env, st))

\* makeEnv, 'meters'
meters(input) ==
  LET v == asNeutral(input)
  IN IF ~IsOk(v) THEN v ELSE Ok(UnitV(NewUnit(v.ok, [name \in {"L"} |-> Rat(1, 1)])))

\* the first and second arguments of _binOp for each operator of makeEnv
binOpFirst(name, a) ==
  CASE name \in {"+", "^", "^/"} -> asUnit(a)
    [] name = ".=" -> asSymb(a)
    [] OTHER -> asAny(a)

binOpSecond(name, b) ==
  CASE name = "+" -> asUnit(b)
    [] name \in {"^", "^/"} -> asNeutral(b)
    [] OTHER -> asAny(b)

\* the third argument of _binOp (f) for each operator of makeEnv
binOpF(name, a, b, env, st) ==
  CASE name = "+" -> Ret(preludeAdd(a, b), st, <<>>)
    [] name = "^" -> Ret(preludePow(a, b), st, <<>>)
    [] name = "^/" -> Ret(preludeRoot(a, b), st, <<>>)
    [] name = "~=" -> Ret(preludeWeakEq(a, b), st, <<>>)
    [] name = ".=" -> preludeAssign(a, b, st)
    [] name = "|?" -> Ret(_fallback(a, b), st, <<>>)

\* _binOp, the fun of the inner native (a name): first(a), second(b), f
binOpApply(name, a, b, env, st) ==
  LET parsedA == binOpFirst(name, a)
  IN IF ~IsOk(parsedA) THEN Ret(parsedA, st, <<>>)
     ELSE LET parsedB == binOpSecond(name, b)
          IN IF ~IsOk(parsedB) THEN Ret(parsedB, st, <<>>)
             ELSE binOpF(name, parsedA.ok, parsedB.ok, env, st)

\* const unit
unitValue == Table(<<>>)

\* `throw sentinel`, sentinel a `new Error(message)`.  An Error is the one
\* object its `new` made: id is the number of Errors made before it.  result
\* is what the closure's `result` variable holds when a `return` throws
\* (null for `break` and `continue`, which have no such variable).
ThrowSentinel(id, message, result) ==
  [throw |-> message, sentinel |-> id, result |-> result]

\* catch (e): e === sentinel
isSentinel(r, id) == IsThrow(r) /\ "sentinel" \in DOMAIN r /\ r.sentinel = id

\* _makeModule(name, table)
_makeModule(table) ==
  Native("module", <<Table(MapSet(table, "__table__", Table(table)))>>)

\* the returnFn of Imp:early_return: result = value; throw sentinel
returnFn(sentinel) == Native("return", <<sentinel>>)

\* an Imp:early_return whose catch takes every sentinel for its own
earlyReturnCatchingAll(funV, env, st) ==
  LET caught(x) ==
        IF IsThrow(x.r) /\ "sentinel" \in DOMAIN x.r THEN Ret(Ok(x.r.result), x.st, x.log)
        ELSE x
  IN caught(applyFunction(funV, returnFn(st.sentinels), env,
                          [st EXCEPT !.sentinels = @ + 1]))

\* ModuleImp, 'early_return'
earlyReturn(funV, env, st) ==
  LET caught(x) ==
        IF isSentinel(x.r, st.sentinels) THEN Ret(Ok(x.r.result), x.st, x.log)
        ELSE x
  IN caught(applyFunction(funV, returnFn(st.sentinels), env,
                          [st EXCEPT !.sentinels = @ + 1]))

\* the bodyArg of Imp:while: {break: breakFn, continue: continueFn}
whileBodyArg(breakSentinel, continueSentinel) ==
  Table(<< <<"break", Native("break", <<breakSentinel>>)>>,
           <<"continue", Native("continue", <<continueSentinel>>)>> >>)

RECURSIVE whileLoop(_, _, _, _, _, _, _)
\* ModuleImp, 'while': the `while (true)` loop, result so far; the sentinels
\* are breakSentinel and the Error made right after it
whileLoop(condition, condEnv, body, bodyEnv, breakSentinel, result, st) ==
  LET again(log, nextResult, nextSt) ==
        After(log, whileLoop(condition, condEnv, body, bodyEnv, breakSentinel,
                             nextResult, nextSt))
      withStep(cond, step) ==
        IF isSentinel(step.r, breakSentinel)
          THEN Ret(Ok(result), step.st, cond.log \o step.log)
        ELSE IF isSentinel(step.r, breakSentinel + 1)
          THEN again(cond.log \o step.log, result, step.st)
        ELSE IF ~IsOk(step.r) THEN After(cond.log, step)
        ELSE again(cond.log \o step.log, step.r.ok, step.st)
      withCond(cond) ==
        IF ~IsOk(cond.r) THEN cond
        ELSE IF cond.r.ok.tag # "Bool"
          THEN Ret(Err(UnexpectedType("boolean", cond.r.ok)), cond.st, cond.log)
        ELSE IF ~cond.r.ok.bool THEN Ret(Ok(result), cond.st, cond.log)
        ELSE withStep(cond,
                      applyFunction(body, whileBodyArg(breakSentinel, breakSentinel + 1),
                                    bodyEnv, cond.st))
  IN withCond(applyFunction(condition, unitValue, condEnv, st))

\* ModuleImp
ModuleImp ==
  _makeModule(<< <<"chain", Native("Imp:chain", <<>>)>>,
                 <<"early_return", Native("Imp:early_return", <<>>)>>,
                 <<"while", Native("Imp:while", <<>>)>> >>)

\* RuntimeError 'Other'
Other(value) == [tag |-> "Other", value |-> value]

asStr(v) == IF v.tag = "Str" THEN Ok(v.str) ELSE Err(UnexpectedType("string", v))

asStrOrSymb(v) ==
  IF v.tag = "Str" THEN Ok(v.str)
  ELSE IF v.tag = "Symbol" THEN Ok(v.symbol)
  ELSE Err(UnexpectedType("string|symbol", v))

asTable(v) == IF v.tag = "Table" THEN Ok(v.table) ELSE Err(UnexpectedType("table", v))

\* IOHandle.resolveModule(location, moduleName) of execution.ts, with the store
\* it is called in: [r |-> null or the Either it returns or the exception that
\* leaves it, st |-> the store after it]
RECURSIVE resolveModule(_, _, _)

\* IO:require, once resolveModule has returned
required(name, module, st) ==
  IF module = null THEN Ret(Err(Other(Str("module not found: " \o name))), st, <<>>)
  ELSE IF IsThrow(module) THEN Ret(module, st, <<>>)
  ELSE IF IsErr(module)
    THEN IF module.err.type = "runtimeError" THEN Ret(Err(module.err.err), st, <<>>)
         ELSE Ret(Err(Other(Str(module.err.type \o ": " \o module.err.msg))), st, <<>>)
  ELSE Ret(module, st, <<>>)

\* IO:require
ioRequire(nameV, st) ==
  LET resolved(name, out) == required(name, out.r, out.st)
      named(name) ==
        IF IsErr(name) THEN Ret(name, st, <<>>)
        ELSE resolved(name.ok, resolveModule(st.location, name.ok, st))
  IN named(asStr(nameV))

RECURSIVE setNames(_, _)
\* table.forEach((value, name) => h.setName(name, value))
setNames(table, st) ==
  IF table = <<>> THEN st
  ELSE setNames(Tail(table), setName(st, table[1][1], table[1][2]))

\* IO:unpack
ioUnpack(tableV, st) ==
  IF IsErr(asTable(tableV)) THEN Ret(asTable(tableV), st, <<>>)
  ELSE Ret(Ok(unitValue), setNames(tableV.table, st), <<>>)

\* IOHandle.writeLine(s)
writeLine(st, s) == [st EXCEPT !.written = Append(@, s)]

\* IO:log
ioLog(sV, st) ==
  IF IsErr(asStr(sV)) THEN Ret(asStr(sV), st, <<>>)
  ELSE Ret(Ok(unitValue), writeLine(st, sV.str), <<>>)

\* IO:define: the name is deleted at once, and the function returned sets it
ioDefine(s, st) ==
  LET named(varName) ==
        IF IsErr(varName) THEN Ret(varName, st, <<>>)
        ELSE Ret(Ok(Native("IO:define value", <<varName.ok>>)), deleteName(st, varName.ok), <<>>)
  IN named(asStrOrSymb(s))

\* IO:forget
ioForget(s, st) ==
  LET named(varName) ==
        IF IsErr(varName) THEN Ret(varName, st, <<>>)
        ELSE Ret(Ok(unitValue), deleteName(st, varName.ok), <<>>)
  IN named(asStrOrSymb(s))

\* ModuleIO(h); h is the store's: its names and its location
ModuleIO ==
  _makeModule(<< <<"require", Native("IO:require", <<>>)>>,
                 <<"unpack", Native("IO:unpack", <<>>)>>,
                 <<"log", Native("IO:log", <<>>)>>,
                 <<"define", Native("IO:define", <<>>)>>,
                 <<"forget", Native("IO:forget", <<>>)>> >>)

\* fun.native(arg, env) for every native the prelude creates
callNative(fun, arg, env, st) ==
  CASE fun.native = "binOp" -> Ret(Ok(Native("binOpInner", <<fun.cap[1], arg>>)), st, <<>>)
    [] fun.native = "binOpInner" -> binOpApply(fun.cap[1], fun.cap[2], arg, env, st)
    [] fun.native = "fallback" -> fallbackFun(fun.cap[1], fun.cap[2], arg, env, st)
    [] fun.native = "meters" -> Ret(meters(arg), st, <<>>)
    [] fun.native = "module" -> applyFunction(fun.cap[1], arg, env, st)
    [] fun.native = "Imp:chain" -> Ret(Ok(fun), st, <<>>)
    [] fun.native = "Imp:early_return" -> earlyReturn(arg, env, st)
    [] fun.native = "return" ->
         Ret(ThrowSentinel(fun.cap[1], "~return~ outside of Imp:early_return", arg), st, <<>>)
    [] fun.native = "Imp:while" -> Ret(Ok(Native("whileInner", <<arg, env>>)), st, <<>>)
    [] fun.native = "whileInner" ->
         whileLoop(fun.cap[1], fun.cap[2], arg, env, st.sentinels, unitValue,
                   [st EXCEPT !.sentinels = @ + 2])
    [] fun.native = "break" ->
         Ret(ThrowSentinel(fun.cap[1], "~break~ outside of a loop", null), st, <<>>)
    [] fun.native = "continue" ->
         Ret(ThrowSentinel(fun.cap[1], "~continue~ outside of a loop", null), st, <<>>)
    [] fun.native = "IO:require" -> ioRequire(arg, st)
    [] fun.native = "IO:unpack" -> ioUnpack(arg, st)
    [] fun.native = "IO:log" -> ioLog(arg, st)
    [] fun.native = "IO:define" -> ioDefine(arg, st)
    [] fun.native = "IO:define value" -> Ret(Ok(arg), setName(st, fun.cap[1], arg), <<>>)
    [] fun.native = "IO:forget" -> ioForget(arg, st)

\* makeEnv: the names of the root environment, those among them that the
\* programs below use
makeEnv ==
  << <<"+", _binOp("+")>>,
     <<"^", _binOp("^")>>,
     <<"^/", _binOp("^/")>>,
     <<"~=", _binOp("~=")>>,
     <<".=", _binOp(".=")>>,
     <<"meters", Native("meters", <<>>)>>,
     <<"true", Bool(TRUE)>>,
     <<"false", Bool(FALSE)>>,
     <<"fallback", _binOp("|?")>>,
     <<"|?", _binOp("|?")>>,
     <<"Imp", ModuleImp>>,
     <<"IO", ModuleIO>> >>

\* LangError of type 'runtimeError'
RuntimeError(err) == [type |-> "runtimeError", err |-> err]

\* Interpreter.runAst: interpret in the interpreter's own environment; an
\* error comes back wrapped as a LangError
runAst(expr, st) ==
  LET withRv(rv) ==
        IF IsErr(rv.r) THEN Ret(Err(RuntimeError(rv.r.err)), rv.st, rv.log) ELSE rv
  IN withRv(interpret(expr, RootEnv, st))

(***************************************************************************)
(* The interpreter session: one Interpreter, expressions run one by one    *)
(***************************************************************************)
MaxRuns == 4

none == [tag |-> "none"]

\* `:name .= value`
Assign(name, valueExpr) == App(App(Name(".="), AstSymbol(name)), valueExpr)

DecInt(n) == Dec(Big(n))

UnitInt(n) == UnitV(NewUnit(Big(n), neutralDimension))

emptyTable == AstTable(<<>>)

\* `{}. x` and `{}. y`
LamX == makeLambda(ArgTable(<<>>), Name("x"))
LamY == makeLambda(ArgTable(<<>>), Name("y"))

AssignX1 == Assign("x", DecInt(1))
AssignX2 == Assign("x", DecInt(2))
AssignF == Assign("f", LamX)
CallF == App(Name("f"), emptyTable)
AssignG == Assign("g", LamY)
\* `(y. g {}) 1`
CallGUnderY == App(makeLambda(ArgSingle("y"), App(Name("g"), emptyTable)), DecInt(1))

SessionPrograms == <<AssignX1, AssignX2, AssignF, CallF, AssignG, CallGUnderY>>

\* ParseOptions; priorities is a Map from operator name to Priority
ParseOptions(priorities, backtickPriority, defaultPriority) ==
  [priorities |-> priorities,
   backtickPriority |-> backtickPriority,
   defaultPriority |-> defaultPriority]

\* DEFAULT_PARSER_OPTIONS of the interpreter, as far as these operators go
DefaultPriorities ==
  << <<"+", Prio(6, "left")>>, <<"*", Prio(8, "left")>>, <<"|?", Prio(3, "right")>> >>

DEFAULT_PARSER_OPTIONS == ParseOptions(DefaultPriorities, Prio(20, "right"), Prio(5, "left"))

YardIdle ==
  /\ yardOps = none
  /\ yardOptions = none
  /\ yardPos = 0
  /\ exprStack = <<>>
  /\ opStack = <<>>
  /\ yardPc = "idle"
  /\ yardResult = none

\* new StatefulParser(): this.options is DEFAULT_PARSER_OPTIONS and makeParser
\* was called with it
ParserMade ==
  /\ thisOptions = DEFAULT_PARSER_OPTIONS
  /\ closureOptions = DEFAULT_PARSER_OPTIONS
  /\ parserLog = <<>>

\* new Interpreter(ioHandle): the environment is makeEnv, nothing has run
InterpreterMade ==
  /\ rootNames = makeEnv
  /\ history = <<>>
  /\ lastResult = none
  /\ lastLog = <<>>
  /\ lines = <<>>
  /\ sentinels = 0
  /\ moduleCache = <<>>
  /\ written = <<>>

\* neither lex nor highlightCode has been called
NothingLexed == lexed = none /\ highlighted = none

\* no parser of the combinators' own has been built
NoCombParser == combParser = none /\ combSrc = <<>> /\ combResult = none

\* unparse has not been called
NothingUnparsed == ast = none /\ unparsed = "" /\ reparsed = none

\* parseMultiline has not been called
NoMultilineParse ==
  /\ multiInput = none /\ multiParsed = none
  /\ multiStream = <<>> /\ multiExpressions = <<>> /\ multiResult = none

\* readEvalPrintLoop has not been called
NoRepl == replState = "none" /\ replIn = <<>> /\ replOut = <<>>

Init ==
  /\ InterpreterMade
  /\ YardIdle
  /\ ParserMade
  /\ madeLambda = none
  /\ NoMultilineParse
  /\ NoRepl
  /\ code = ""
  /\ includeWs = FALSE
  /\ NothingLexed
  /\ NoCombParser
  /\ NothingUnparsed

\* process.cwd(), the location of an Interpreter made without one
Cwd == <<"w">>

\* what the session's interpreter and its IOHandle hold: the names of its own
\* environment, its location, and what execution.ts keeps for every interpreter
Store ==
  [names |-> rootNames, sentinels |-> sentinels, cache |-> moduleCache,
   written |-> written, location |-> Cwd]

\* the rest of the store after a call
Stored(st) ==
  /\ sentinels' = st.sentinels
  /\ moduleCache' = st.cache
  /\ written' = st.written

\* Interpreter.runAst(expr) on the session's interpreter
RunAst(expr) ==
  LET out == runAst(expr, Store)
  IN /\ rootNames' = out.st.names
     /\ Stored(out.st)
     /\ history' = Append(history, expr)
     /\ lastResult' = out.r
     /\ lastLog' = out.log
     /\ lines' = lines
     /\ UNCHANGED exceptInterp

Next ==
  \E i \in 1..Len(SessionPrograms) :
    /\ Len(history) < MaxRuns
    /\ RunAst(SessionPrograms[i])

Spec == Init /\ [][Next]_vars

(***************************************************************************)
(* One application on a new interpreter                                    *)
(***************************************************************************)
\* `p |? q`
Fallback(p, q) == App(App(Name("|?"), p), q)

\* `x. x`
LamId == makeLambda(ArgSingle("x"), Name("x"))
\* `{foo: bar}. bar`
LamFooBar == makeLambda(ArgTable(<< <<"foo", ArgSingle("bar")>> >>), Name("bar"))
\* `{foo: a, zzz: b}. b`
LamFooZzz ==
  makeLambda(ArgTable(<< <<"foo", ArgSingle("a")>>, <<"zzz", ArgSingle("b")>> >>),
             Name("b"))
\* `{zzz: a, foo: b}. (:z .= 1)`
LamZzzFoo ==
  makeLambda(ArgTable(<< <<"zzz", ArgSingle("a")>>, <<"foo", ArgSingle("b")>> >>),
             Assign("z", DecInt(1)))
\* `{foo: {foo: c}}. c`
LamNested ==
  makeLambda(ArgTable(<< <<"foo", ArgTable(<< <<"foo", ArgSingle("c")>> >>)>> >>),
             Name("c"))
\* `{foo: 1}`, `{zzz: 2}`, `{foo: 1, zzz: 2}`, `{foo: {foo: 1}}`
TableNested == AstTable(<< <<"foo", AstTable(<< <<"foo", DecInt(1)>> >>)>> >>)
TableFoo == AstTable(<< <<"foo", DecInt(1)>> >>)
TableZzz == AstTable(<< <<"zzz", DecInt(2)>> >>)
TableFooZzz == AstTable(<< <<"foo", DecInt(1)>>, <<"zzz", DecInt(2)>> >>)
\* `:w .= 1` and `:z .= 1`
AssignW == Assign("w", DecInt(1))
AssignZ == Assign("z", DecInt(1))

\* the expressions tried in function position
EvalFuns ==
  << Name("nope"),
     App(AssignW, Name("nope")),
     AssignW,
     App(Name(".="), AstSymbol("w")),
     LamId,
     LamFooBar,
     LamFooZzz,
     LamZzzFoo,
     LamNested,
     TableFoo,
     Name("meters"),
     Fallback(TableFoo, TableZzz),
     Fallback(TableZzz, Fallback(emptyTable, TableFoo)),
     Fallback(DecInt(1), TableFoo),
     Fallback(Name("meters"), TableFoo),
     Fallback(emptyTable, LamId),
     Fallback(LamFooBar, TableFoo) >>

\* the expressions tried in argument position
EvalArgs ==
  << Name("nope"),
     AssignZ,
     DecInt(1),
     AstSymbol("foo"),
     AstSymbol("zzz"),
     LamId,
     TableFoo,
     TableFooZzz,
     TableNested,
     Name("meters"),
     Fallback(TableZzz, TableFoo),
     Fallback(TableFoo, LamId) >>

\* one runAst of `f a` on an interpreter that has run nothing yet
NextEval ==
  \E f \in 1..Len(EvalFuns), a \in 1..Len(EvalArgs) :
    /\ history = <<>>
    /\ RunAst(App(EvalFuns[f], EvalArgs[a]))

SpecEval == Init /\ [][NextEval]_vars

(***************************************************************************)
(* One operator of the prelude on a new interpreter                        *)
(***************************************************************************)
\* `a op b`
BinOp(op, a, b) == App(App(Name(op), a), b)

\* `meters n`
Meters(n) == App(Name("meters"), DecInt(n))

\* `0.5`
DecHalf == Dec(Rat(1, 2))

TableX1 == AstTable(<< <<"x", DecInt(1)>> >>)
TableX2 == AstTable(<< <<"x", DecInt(2)>> >>)
TableY1 == AstTable(<< <<"y", DecInt(1)>> >>)
TableX1Y2 == AstTable(<< <<"x", DecInt(1)>>, <<"y", DecInt(2)>> >>)
TableY2X1 == AstTable(<< <<"y", DecInt(2)>>, <<"x", DecInt(1)>> >>)
TableXX1 == AstTable(<< <<"x", TableX1>> >>)

\* the operators tried
PreludeOps == <<"^", "^/", "~=">>

\* the operands tried on either side
PreludeOperands ==
  << DecInt(-8), DecInt(-4), DecInt(-3), DecInt(-2), DecInt(-1), DecInt(0),
     DecInt(1), DecInt(2), DecInt(3), DecInt(4), DecInt(8), DecHalf,
     Meters(2), Meters(5),
     emptyTable, TableX1, TableX2, TableY1, TableX1Y2, TableY2X1, TableXX1,
     AstSymbol("x"), AstStr("x"), Name("true") >>

\* one runAst of `a op b` on an interpreter that has run nothing yet
NextPrelude ==
  \E o \in 1..Len(PreludeOps), a \in 1..Len(PreludeOperands), b \in 1..Len(PreludeOperands) :
    /\ history = <<>>
    /\ RunAst(BinOp(PreludeOps[o], PreludeOperands[a], PreludeOperands[b]))

SpecPrelude == Init /\ [][NextPrelude]_vars

(***************************************************************************)
(* shunting-yard.ts: resolving a list of operands and infix operators      *)
(***************************************************************************)
\* Ops: {initial, chunks}, chunks a sequence of <<Op, Expr>>
MakeOps(initial, chunks) == [initial |-> initial, chunks |-> chunks]

\* a stream that leaves out the initial operand
opsToStreamWithoutInitial(ops) ==
  [i \in 1..(2 * Len(ops.chunks)) |->
     IF i % 2 = 1 THEN [op |-> ops.chunks[(i + 1) \div 2][1]]
     ELSE [app |-> ops.chunks[i \div 2][2]]]

\* opsToStream: the initial operand, then each chunk's operator and operand
opsToStream(ops) ==
  [i \in 1..(2 * Len(ops.chunks) + 1) |->
     IF i = 1 THEN [app |-> ops.initial]
     ELSE IF i % 2 = 0 THEN [op |-> ops.chunks[i \div 2][1]]
     ELSE [app |-> ops.chunks[i \div 2][2]]]

getPriority(operator, options) ==
  IF operator.tag = "ExprOp" THEN options.backtickPriority
  ELSE IF MapHas(options.priorities, operator.name)
    THEN MapGet(options.priorities, operator.name)
  ELSE options.defaultPriority

\* never(): the Error it throws leaves shuntingYard
never == [tag |-> "never"]

\* reduce: the stacks after it, or never
reduce(es, os) ==
  IF os = <<>> \/ Len(es) < 2 THEN never
  ELSE [exprStack |->
          Append(SubSeq(es, 1, Len(es) - 2),
                 IF Last(os).tag = "ExprOp"
                   THEN App(App(Last(os).expr, es[Len(es) - 1]), Last(es))
                   ELSE App(App(Name(Last(os).name), es[Len(es) - 1]), Last(es))),
        opStack |-> Front(os)]

\* a test that looks at the direction of the operator on the stack
reducesFirstByTopDirection(myPrio, topPrio) ==
  \/ myPrio.strength < topPrio.strength
  \/ (myPrio.strength = topPrio.strength /\ topPrio.direction = "left")

\* a test that reduces an operator weaker than the incoming one
reducesFirstWeaker(myPrio, topPrio) ==
  \/ myPrio.strength > topPrio.strength
  \/ (myPrio.strength = topPrio.strength /\ myPrio.direction = "left")

\* the test of the while loop: the operator on top of the stack is reduced
\* before the incoming operator is pushed
reducesFirst(myPrio, topPrio) ==
  \/ myPrio.strength < topPrio.strength
  \/ (myPrio.strength = topPrio.strength /\ myPrio.direction = "left")

\* the item the for loop is at, when there is one
YardAtItem == yardPc = "run" /\ yardPos <= Len(opsToStream(yardOps))

YardItem == opsToStream(yardOps)[yardPos]

\* shuntingYard(ops, options) is called: both stacks are empty
YardStart(ops, options) ==
  /\ yardPc = "idle"
  /\ yardOps' = ops
  /\ yardOptions' = options
  /\ yardPos' = 1
  /\ exprStack' = <<>>
  /\ opStack' = <<>>
  /\ yardPc' = "run"
  /\ UNCHANGED <<yardResult, exceptYard>>

\* the stacks and the position after one reduce()
YardReduced ==
  IF reduce(exprStack, opStack) = never
    THEN yardPc' = "never" /\ UNCHANGED <<exprStack, opStack>>
    ELSE /\ exprStack' = reduce(exprStack, opStack).exprStack
         /\ opStack' = reduce(exprStack, opStack).opStack
         /\ yardPc' = yardPc

\* for loop, an operand: exprStack.push(item.app)
YardPushExpr ==
  /\ YardAtItem
  /\ "app" \in DOMAIN YardItem
  /\ exprStack' = Append(exprStack, YardItem.app)
  /\ yardPos' = yardPos + 1
  /\ UNCHANGED <<yardOps, yardOptions, opStack, yardPc, yardResult, exceptYard>>

\* for loop, an operator, one turn of the while loop that does not break
YardReduceForOp ==
  /\ YardAtItem
  /\ "op" \in DOMAIN YardItem
  /\ opStack # <<>>
  /\ reducesFirst(getPriority(YardItem.op, yardOptions),
                  getPriority(Last(opStack), yardOptions))
  /\ YardReduced
  /\ UNCHANGED <<yardOps, yardOptions, yardPos, yardResult, exceptYard>>

\* for loop, an operator: the stack is empty or the while loop breaks, and
\* opStack.push(item.op)
YardPushOp ==
  /\ YardAtItem
  /\ "op" \in DOMAIN YardItem
  /\ IF opStack = <<>> THEN TRUE
     ELSE ~reducesFirst(getPriority(YardItem.op, yardOptions),
                        getPriority(Last(opStack), yardOptions))
  /\ opStack' = Append(opStack, YardItem.op)
  /\ yardPos' = yardPos + 1
  /\ UNCHANGED <<yardOps, yardOptions, exprStack, yardPc, yardResult, exceptYard>>

\* after the for loop: while (opStack.length > 0) reduce()
YardDrain ==
  /\ yardPc = "run"
  /\ yardPos > Len(opsToStream(yardOps))
  /\ opStack # <<>>
  /\ YardReduced
  /\ UNCHANGED <<yardOps, yardOptions, yardPos, yardResult, exceptYard>>

\* the end: never() unless exactly one expression is left, which is returned
YardReturn ==
  /\ yardPc = "run"
  /\ yardPos > Len(opsToStream(yardOps))
  /\ opStack = <<>>
  /\ IF Len(exprStack) # 1
       THEN yardPc' = "never" /\ UNCHANGED yardResult
       ELSE yardPc' = "done" /\ yardResult' = exprStack[1]
  /\ UNCHANGED <<yardOps, yardOptions, yardPos, exprStack, opStack, exceptYard>>

\* the most chunks an operator list handed to shuntingYard has
MaxChunks == 3

\* `+` at (6, left), `*` at (8, left), `|?` at (6, right)
YardPriorities ==
  << <<"+", Prio(6, "left")>>, <<"*", Prio(8, "left")>>, <<"|?", Prio(6, "right")>> >>

YardOptions == ParseOptions(YardPriorities, Prio(20, "right"), Prio(5, "left"))

\* the operators tried: three with a priority of their own, one without, and
\* an expression between backticks
YardOperators ==
  {InfixOp("+"), InfixOp("*"), InfixOp("|?"), InfixOp("<>"), ExprOp(Name("f"))}

\* the operands tried, by position: `a`, `b`, ... or `1`, `2`, ...
YardOperands ==
  << <<Name("a"), Name("b"), Name("c"), Name("d"), Name("e")>>,
     <<DecInt(1), DecInt(2), DecInt(3), DecInt(4), DecInt(5)>> >>

\* the operator lists tried: operands[1] op[1] operands[2] op[2] ...
YardInputs ==
  UNION {{MakeOps(operands[1], [k \in 1..n |-> <<operators[k], operands[k + 1]>>]) :
            operands \in Range(YardOperands), operators \in [1..n -> YardOperators]} :
         n \in 0..MaxChunks}

NextYard ==
  \/ \E ops \in YardInputs, options \in {YardOptions, DEFAULT_PARSER_OPTIONS} :
       YardStart(ops, options)
  \/ YardPushExpr
  \/ YardReduceForOp
  \/ YardPushOp
  \/ YardDrain
  \/ YardReturn

SpecYard == Init /\ [][NextYard]_vars

(***************************************************************************)
(* JavaScript strings.  A string is a TLA+ string: Len, SubSeq and \o are   *)
(* its length, its slices and its concatenation.  The backtick, which a    *)
(* TLA+ string cannot hold, is written ~ (a character the language has no  *)
(* use for).                                                               *)
(***************************************************************************)
\* s[i - 1]: the i-th character of s, "" beyond its ends
charAt(s, i) == IF i >= 1 /\ i <= Len(s) THEN SubSeq(s, i, i) ELSE ""

slice(s, from) == SubSeq(s, from + 1, Len(s))

\* String.indexOf(c) + 1: the place of the first c in s, 0 when there is none
indexOf(s, c) ==
  IF \E i \in 1..Len(s) : charAt(s, i) = c
    THEN CHOOSE i \in 1..Len(s) : charAt(s, i) = c /\ \A j \in 1..(i - 1) : charAt(s, j) # c
    ELSE 0

digits == <<"0", "1", "2", "3", "4", "5", "6", "7", "8", "9">>

isDigit(c) == c \in Range(digits)

digitValue(c) == (CHOOSE i \in 1..Len(digits) : digits[i] = c) - 1

RECURSIVE natOfDigits(_)
\* the number a run of decimal digits writes, 0 for the empty run
natOfDigits(s) ==
  IF s = "" THEN 0
  ELSE 10 * natOfDigits(SubSeq(s, 1, Len(s) - 1)) + digitValue(charAt(s, Len(s)))

\* an exponent: digits with an optional sign
intOfString(s) ==
  IF s = "" THEN 0
  ELSE IF charAt(s, 1) = "-" THEN -natOfDigits(slice(s, 1))
  ELSE IF charAt(s, 1) = "+" THEN natOfDigits(slice(s, 1))
  ELSE natOfDigits(s)

\* new Big(s) for a string of the shape -?digits(.digits)?(e[-+]?digits)?
BigOfString(s) ==
  LET neg == charAt(s, 1) = "-"
      body == IF neg THEN slice(s, 1) ELSE s
      ePos == indexOf(body, "e")
      mantissa == IF ePos = 0 THEN body ELSE SubSeq(body, 1, ePos - 1)
      exponent == IF ePos = 0 THEN 0 ELSE intOfString(slice(body, ePos))
      dotPos == indexOf(mantissa, ".")
      whole == IF dotPos = 0 THEN mantissa ELSE SubSeq(mantissa, 1, dotPos - 1)
      fraction == IF dotPos = 0 THEN "" ELSE slice(mantissa, dotPos)
      shift == exponent - Len(fraction)
      n == natOfDigits(whole \o fraction) * (IF neg THEN -1 ELSE 1)
  IN IF shift >= 0 THEN Rat(n * IntPow(10, shift), 1) ELSE Rat(n, IntPow(10, -shift))

RECURSIVE unescape(_)
\* the characters a string literal's body denotes: \n is a line feed, an
\* escaped line feed is nothing, any other escaped character is itself
unescape(s) ==
  IF s = "" THEN ""
  ELSE IF charAt(s, 1) = "\\"
    THEN (IF charAt(s, 2) = "n" THEN "\n"
          ELSE IF charAt(s, 2) = "\n" THEN ""
          ELSE charAt(s, 2)) \o unescape(slice(s, 2))
  ELSE charAt(s, 1) \o unescape(slice(s, 1))

RECURSIVE hasRawLineFeed(_)
hasRawLineFeed(s) ==
  IF s = "" THEN FALSE
  ELSE IF charAt(s, 1) = "\\" THEN hasRawLineFeed(slice(s, 2))
  ELSE IF charAt(s, 1) = "\n" THEN TRUE
  ELSE hasRawLineFeed(slice(s, 1))

\* eval(content) of a string1 or string2 token: the string the literal denotes;
\* a literal holding a raw line feed is a SyntaxError
evalString(s) ==
  IF hasRawLineFeed(SubSeq(s, 2, Len(s) - 1))
    THEN Throw("SyntaxError: Invalid or unexpected token")
    ELSE Ok(unescape(SubSeq(s, 2, Len(s) - 1)))

RECURSIVE escape(_)
escape(s) ==
  IF s = "" THEN ""
  ELSE (IF charAt(s, 1) = "\n" THEN "\\n"
        ELSE IF charAt(s, 1) \in {"\"", "\\"} THEN "\\" \o charAt(s, 1)
        ELSE charAt(s, 1)) \o escape(slice(s, 1))

\* JSON.stringify(s) of a string
stringify(s) == "\"" \o escape(s) \o "\""

(***************************************************************************)
(* parser.ts, combinators.ts, language.ts.  A Parser is a term; Parse runs  *)
(* it.  The function handed to map or flatMap is a record [fn |-> name, ...]*)
(* holding what the closure captured; ApplyFn and ApplyFlatMapFn call it.   *)
(***************************************************************************)
ParseError(recoverable, msg) == [recoverable |-> recoverable, msg |-> msg]

EOI == ParseError(TRUE, "Unexpected end of input")

Token(type, position, content) == [type |-> type, position |-> position, content |-> content]

Fn(fn) == [fn |-> fn]

\* parser(_ => Err(err))
failWith(err) == [p |-> "fail", err |-> err]

\* L.oneOf(...allowed)
oneOf(allowed) == [p |-> "oneOf", allowed |-> allowed]

RECURSIVE join(_, _)
\* Array.join(sep) of strings
join(strings, sep) ==
  IF strings = <<>> THEN ""
  ELSE IF Len(strings) = 1 THEN strings[1]
  ELSE strings[1] \o sep \o join(Tail(strings), sep)

map(self, f) == [p |-> "map", self |-> self, f |-> f]

flatMap(self, f) == [p |-> "flatMap", self |-> self, f |-> f]

or(self, other) == [p |-> "or", self |-> self, other |-> other]

lookAhead(self) == [p |-> "lookAhead", self |-> self]

\* lazy(() => the parser called get)
lazy(get) == [p |-> "lazy", get |-> get]

always(a) == [p |-> "always", a |-> a]

\* many(single) builds its continuation when it runs, so it stays a term
many(single) == [p |-> "many", single |-> single]

reading(t, read) == map(oneOf(<<t>>), [fn |-> "content", read |-> read])

then(self, other) == flatMap(self, [fn |-> "then", other |-> other])

neht(self, other) == flatMap(self, [fn |-> "neht", other |-> other])

orBail(self, msg) == or(self, failWith(ParseError(FALSE, msg)))

\* orSame is or
orSame(self, other) == or(self, other)

fail(msg) == failWith(ParseError(TRUE, msg))

failUnrecoverable(msg) == failWith(ParseError(FALSE, msg))

surroundedBy(left, middle, right) == neht(then(left, middle), right)

pair(left, right) == flatMap(left, [fn |-> "pair", right |-> right])

manyAtLeast(single, atLeast, failMsg) ==
  flatMap(many(single), [fn |-> "manyAtLeast", atLeast |-> atLeast, failMsg |-> failMsg])

maybe(optional) == or(map(optional, Fn("null")), always(null))

(***************************************************************************)
(* lang/parser.ts: makeParser                                              *)
(***************************************************************************)
inParentheses(p) == surroundedBy(oneOf(<<"lp">>), p, oneOf(<<"rp">>))

trailingComma(lookAheadFor) == or(oneOf(<<"comma">>), lookAhead(oneOf(<<lookAheadFor>>)))

nameOrOperator == or(reading("name", Fn("id")), reading("op", Fn("id")))

exprParser == lazy("exprParser_")

\* const name
nameParser == reading("name", Fn("Name"))

decLiteral == reading("dec", Fn("Dec"))

stringLiteral == map(or(reading("string1", Fn("eval")), reading("string2", Fn("eval"))), Fn("Str"))

symbolLiteral ==
  then(oneOf(<<"col">>),
       orBail(map(nameOrOperator, Fn("Symbol")), "Expected name or operator after :"))

parenthesized == inParentheses(exprParser)

\* tableLiteral: singleTableEntry
tableEntry ==
  orSame(pair(neht(nameOrOperator, oneOf(<<"col">>)), exprParser),
         map(nameOrOperator, Fn("keyAsName")))

tableContents == many(neht(tableEntry, trailingComma("rbr")))

tableLiteral == map(surroundedBy(oneOf(<<"lbr">>), tableContents, oneOf(<<"rbr">>)), Fn("Table"))

nameParameter == map(nameOrOperator, Fn("ArgSingle"))

_tablePatHelper ==
  surroundedBy(oneOf(<<"lbr">>),
               many(neht(flatMap(nameOrOperator, Fn("singleTableEntry")),
                         trailingComma("rbr"))),
               oneOf(<<"rbr">>))

tableParameter == map(_tablePatHelper, Fn("ArgTable"))

parameter == or(nameParameter, tableParameter)

parameterList == neht(many(parameter), oneOf(<<"dot">>))

\* lambda: singleTableEntry(target)
singleTableEntry(target) ==
  orSame(map(then(oneOf(<<"col">>), parameter), [fn |-> "entryOf", target |-> target]),
         always(<<target, ArgSingle(target)>>))

RECURSIVE _makeNestedLambda(_, _)
\* argNames.reduceRight((acc, arg) => makeLambda(arg, acc), expr)
_makeNestedLambda(argNames, expr) ==
  IF argNames = <<>> THEN expr
  ELSE makeLambda(argNames[1], _makeNestedLambda(Tail(argNames), expr))

functionBody(args) ==
  orBail(map(exprParser, [fn |-> "_makeNestedLambda", args |-> args]),
         "After the dot, there should be a function body")

lambda == flatMap(parameterList, Fn("functionBody"))

\* const ifThenElse
condParser ==
  map(pair(then(oneOf(<<"if">>), orBail(exprParser, "Expected expression after ~if~")),
           pair(then(orBail(oneOf(<<"then">>), "Expected ~then~"), exprParser),
                then(orBail(oneOf(<<"else">>), "Expected ~else~"), exprParser))),
      Fn("Cond"))

atomic ==
  or(or(or(or(or(or(or(lazy("operatorSection"),
                       decLiteral),
                    stringLiteral),
                 nameParser),
              parenthesized),
           condParser),
        symbolLiteral),
     tableLiteral)

\* operatorSection: infixOperator
sectionOperator ==
  or(reading("op", Fn("Name")),
     neht(then(oneOf(<<"backtick">>), reading("name", Fn("Name"))),
          orBail(oneOf(<<"backtick">>), "Unclosed ~")))

leftSection == map(inParentheses(pair(sectionOperator, atomic)), Fn("leftSection"))

rightSection == map(inParentheses(pair(atomic, sectionOperator)), Fn("rightSection"))

bareOperator == inParentheses(sectionOperator)

operatorSection == or(or(leftSection, rightSection), bareOperator)

application == map(manyAtLeast(atomic, 1, "Unexpected end of input"), Fn("application"))

symbolInfixOp == reading("op", Fn("InfixOp"))

backtickInfixOp ==
  neht(then(oneOf(<<"backtick">>), map(exprParser, Fn("ExprOp"))), oneOf(<<"backtick">>))

infixOperator == or(symbolInfixOp, backtickInfixOp)

operatorList == map(pair(application, many(pair(infixOperator, application))), Fn("operatorList"))

infixOperatorExpression == map(operatorList, Fn("shuntingYard"))

exprEnd == maybe(oneOf(<<"semicolon">>))

exprParser_ == neht(or(lambda, infixOperatorExpression), exprEnd)

\* the parser a lazy() gets when it runs
lazyGet(get) ==
  CASE get = "exprParser_" -> exprParser_
    [] get = "operatorSection" -> operatorSection

RECURSIVE yardLoop(_, _, _, _, _)
\* shuntingYard's loops from item pos of the stream on, run to the end: the
\* expression returned, or never
yardLoop(stream, pos, es, os, opts) ==
  LET reduced(red) ==
        IF red = never THEN never
        ELSE yardLoop(stream, pos, red.exprStack, red.opStack, opts)
  IN IF pos > Len(stream)
       THEN IF os # <<>> THEN reduced(reduce(es, os))
            ELSE IF Len(es) # 1 THEN never
            ELSE es[1]
     ELSE IF "app" \in DOMAIN stream[pos]
       THEN yardLoop(stream, pos + 1, Append(es, stream[pos].app), os, opts)
     ELSE IF os = <<>>
       THEN yardLoop(stream, pos + 1, es, Append(os, stream[pos].op), opts)
     ELSE IF reducesFirst(getPriority(stream[pos].op, opts), getPriority(Last(os), opts))
       THEN reduced(reduce(es, os))
     ELSE yardLoop(stream, pos + 1, es, Append(os, stream[pos].op), opts)

shuntingYard(ops, opts) == yardLoop(opsToStream(ops), 1, <<>>, <<>>, opts)

RECURSIVE reduceApp(_, _)
\* rest.reduce(app, first)
reduceApp(rest, first) ==
  IF rest = <<>> THEN first ELSE reduceApp(Tail(rest), App(first, rest[1]))

\* a function returned e, or threw because e is never
Returned(e) == IF e = never THEN Throw("This should never happen") ELSE Ok(e)

RECURSIVE ApplyFn(_, _, _)
\* f(a) for the function handed to a map: Ok(the value), or the exception it
\* throws.  opts is makeParser's `options` variable at the time of the call.
ApplyFn(f, a, opts) ==
  CASE f.fn = "content" -> ApplyFn(f.read, a.content, opts)
    [] f.fn = "id" -> Ok(a)
    [] f.fn = "Name" -> Ok(Name(a))
    [] f.fn = "Dec" -> Ok(Dec(BigOfString(a)))
    [] f.fn = "eval" -> evalString(a)
    [] f.fn = "Str" -> Ok(AstStr(a))
    [] f.fn = "Symbol" -> Ok(AstSymbol(a))
    [] f.fn = "keyAsName" -> Ok(<<a, Name(a)>>)
    [] f.fn = "Table" -> Ok(AstTable(a))
    [] f.fn = "ArgSingle" -> Ok(ArgSingle(a))
    [] f.fn = "ArgTable" -> Ok(ArgTable(a))
    [] f.fn = "entryOf" -> Ok(<<f.target, a>>)
    [] f.fn = "_makeNestedLambda" -> Ok(_makeNestedLambda(f.args, a))
    [] f.fn = "Cond" -> Ok(Cond(a[1], a[2][1], a[2][2]))
    [] f.fn = "leftSection" ->
         Ok(makeLambda(ArgSingle("_"), App(App(a[1], Name("_")), a[2])))
    [] f.fn = "rightSection" -> Ok(App(a[2], a[1]))
    [] f.fn = "application" -> Ok(reduceApp(Tail(a), a[1]))
    [] f.fn = "InfixOp" -> Ok(InfixOp(a))
    [] f.fn = "ExprOp" -> Ok(ExprOp(a))
    [] f.fn = "operatorList" -> Ok(MakeOps(a[1], a[2]))
    [] f.fn = "shuntingYard" -> Returned(shuntingYard(a, opts))
    [] f.fn = "null" -> Ok(null)
    [] f.fn = "keep" -> Ok(f.a)
    [] f.fn = "pairWith" -> Ok(<<f.a, a>>)
    [] f.fn = "cons" -> Ok(<<f.a>> \o a)

\* f(a) for the function handed to a flatMap: the parser that goes on
ApplyFlatMapFn(f, a) ==
  CASE f.fn = "then" -> f.other
    [] f.fn = "neht" -> map(f.other, [fn |-> "keep", a |-> a])
    [] f.fn = "pair" -> map(f.right, [fn |-> "pairWith", a |-> a])
    [] f.fn = "many" -> map(many(f.single), [fn |-> "cons", a |-> a])
    [] f.fn = "manyAtLeast" -> IF Len(a) >= f.atLeast THEN always(a) ELSE fail(f.failMsg)
    [] f.fn = "singleTableEntry" -> singleTableEntry(a)
    [] f.fn = "functionBody" -> functionBody(a)

\* A parse in progress.  Parser.parse calls the parse of the parser it was
\* built from, and goes on when that call returns; the calls that are waiting
\* are kept on a stack, innermost first, each with what it goes on with:
\*   [k |-> "map", f], [k |-> "flatMap", f], [k |-> "lookAhead", src],
\*   [k |-> "or", other, src].
\* p.parse(src) is called below the calls of stack
RunCall(p, src, stack) == [pc |-> "call", p |-> p, src |-> src, stack |-> stack]

\* the call at hand returns ea to the innermost call of stack
RunRet(ea, stack) == [pc |-> "ret", ret |-> ea, stack |-> stack]

\* an or that runs the other parser after any failure
orAfterAnyFailure(ea, other, src, stack) ==
  IF IsOk(ea) \/ IsThrow(ea) THEN RunRet(ea, stack) ELSE RunCall(other, src, stack)

\* Parser.or, once this.parse(src) has returned ea
orOther(ea, other, src, stack) ==
  IF IsOk(ea) \/ IsThrow(ea) THEN RunRet(ea, stack)
  ELSE IF ~ea.err.recoverable THEN RunRet(ea, stack)
  ELSE RunCall(other, src, stack)

\* Parser.parse, its first part: p.parse(src) returns at once, or calls the
\* parse of the parser it was built from
called(p, src, stack) ==
  CASE p.p = "oneOf" ->
         RunRet(IF src = <<>> THEN Err(EOI)
                ELSE IF src[1].type \in Range(p.allowed) THEN Ok(<<src[1], Tail(src)>>)
                ELSE Err(ParseError(TRUE, "Expected " \o join(p.allowed, "|")
                                            \o ", got " \o src[1].type)),
                stack)
    [] p.p = "fail" -> RunRet(Err(p.err), stack)
    [] p.p = "always" -> RunRet(Ok(<<p.a, src>>), stack)
    [] p.p = "lazy" -> RunCall(lazyGet(p.get), src, stack)
    [] p.p = "map" -> RunCall(p.self, src, <<[k |-> "map", f |-> p.f]>> \o stack)
    [] p.p = "flatMap" -> RunCall(p.self, src, <<[k |-> "flatMap", f |-> p.f]>> \o stack)
    [] p.p = "lookAhead" -> RunCall(p.self, src, <<[k |-> "lookAhead", src |-> src]>> \o stack)
    [] p.p = "or" ->
         RunCall(p.self, src, <<[k |-> "or", other |-> p.other, src |-> src]>> \o stack)
    [] p.p = "many" ->
         RunCall(or(flatMap(p.single, [fn |-> "many", single |-> p.single]), always(<<>>)),
                 src, stack)

\* Parser.parse, its second part: the waiting call frame gets ea from
\* this.parse(src); opts is makeParser's `options` variable
returned(ea, frame, stack, opts) ==
  LET mapped(fa) == IF IsOk(fa) THEN Ok(<<fa.ok, ea.ok[2]>>) ELSE fa
  IN CASE frame.k = "map" ->
            RunRet(IF ~IsOk(ea) THEN ea ELSE mapped(ApplyFn(frame.f, ea.ok[1], opts)), stack)
       [] frame.k = "flatMap" ->
            IF ~IsOk(ea) THEN RunRet(ea, stack)
            ELSE RunCall(ApplyFlatMapFn(frame.f, ea.ok[1]), ea.ok[2], stack)
       [] frame.k = "lookAhead" ->
            RunRet(IF ~IsOk(ea) THEN ea ELSE Ok(<<ea.ok[1], frame.src>>), stack)
       [] frame.k = "or" -> orOther(ea, frame.other, frame.src, stack)

\* the next call or return of a parse in progress; the outermost return ends it
parseStep(run, opts) ==
  IF run.pc = "call" THEN called(run.p, run.src, run.stack)
  ELSE IF run.stack = <<>> THEN [pc |-> "done", ret |-> run.ret]
  ELSE returned(run.ret, run.stack[1], Tail(run.stack), opts)

\* 2^MaxDoublings calls and returns are enough for every parse of the model
MaxDoublings == 14

RECURSIVE parseSteps(_, _, _)
\* run after 2^k steps, or at its end when that comes earlier
parseSteps(k, run, opts) ==
  IF run.pc = "done" THEN run
  ELSE IF k = 0 THEN parseStep(run, opts)
  ELSE parseSteps(k - 1, parseSteps(k - 1, run, opts), opts)

\* p.parse(src): Ok(<<a, rest>>), Err(ParseError), or the exception a mapped
\* function threw
Parse(p, src, opts) == parseSteps(MaxDoublings, RunCall(p, src, <<>>), opts).ret

(***************************************************************************)
(* The parser in use: parses, and changes of its options                   *)
(***************************************************************************)
\* the most setter calls and parses of one parser
MaxParserSteps == 4

tok(type, position, content) == Token(type, position, content)

\* the tokens of `x op1 y op2 z`
InfixStream(x, op1, y, op2, z) ==
  <<tok("name", 0, x), tok("op", 1, op1), tok("name", 2, y),
    tok("op", 3, op2), tok("name", 4, z)>>

ParserStreams ==
  {InfixStream("a", "+", "b", "+", "c"),
   InfixStream("a", "+", "b", "*", "c"),
   InfixStream("a", "*", "b", "+", "c")}

\* opts1 and opts2 of the parser's test
PlusLeft4 == ParseOptions(<< <<"+", Prio(4, "left")>> >>, Prio(20, "right"), Prio(5, "left"))

PlusRight4 == ParseOptions(<< <<"+", Prio(4, "right")>> >>, Prio(20, "right"), Prio(5, "left"))

ParserPrios == {<<"+", Prio(4, "left")>>, <<"+", Prio(4, "right")>>, <<"*", Prio(3, "left")>>}

\* the setter makeParser returns: newOpts => {options = newOpts}
setOptions(newOpts) ==
  /\ closureOptions' = newOpts
  /\ parserLog' = Append(parserLog, [ev |-> "setOptions", options |-> newOpts])

\* the setter, called by the owner of a bare makeParser
SetOptions(newOpts) ==
  /\ Len(parserLog) < MaxParserSteps
  /\ setOptions(newOpts)
  /\ UNCHANGED <<thisOptions, exceptParser>>

\* StatefulParser.setPrio(name, prio)
SetPrio(opName, prio) ==
  /\ Len(parserLog) < MaxParserSteps
  /\ thisOptions' = [thisOptions EXCEPT !.priorities = MapSet(@, opName, prio)]
  /\ setOptions([thisOptions EXCEPT !.priorities = MapSet(@, opName, prio)])
  /\ UNCHANGED exceptParser

\* the parse of a parser that kept the options makeParser was called with
parseWithInitialOptions(stream, opts) == Parse(exprParser_, stream, DEFAULT_PARSER_OPTIONS)

\* the parse of the expression parser: what it sees of `options` when it runs
parseWith(stream, opts) == Parse(exprParser_, stream, opts)

\* StatefulParser.parse(stream) / parser.parse(stream)
ParserParse(stream) ==
  /\ Len(parserLog) < MaxParserSteps
  /\ parserLog' = Append(parserLog, [ev |-> "parse", stream |-> stream,
                                     result |-> parseWith(stream, closureOptions)])
  /\ UNCHANGED <<thisOptions, closureOptions, exceptParser>>

NextParser ==
  \/ \E newOpts \in {PlusLeft4, PlusRight4} : SetOptions(newOpts)
  \/ \E np \in ParserPrios : SetPrio(np[1], np[2])
  \/ \E stream \in ParserStreams : ParserParse(stream)

SpecParser == Init /\ [][NextParser]_vars

(***************************************************************************)
(* makeLambda on its own: one call on a parameter pattern and a body       *)
(***************************************************************************)
\* the deepest nesting of the bodies tried
MaxBodyDepth == 2

BodyAtoms == {Name("x"), Name("y"), Name("f"), DecInt(1)}

LambdaArgs ==
  {ArgSingle("x"), ArgSingle("f"),
   ArgTable(<< <<"k", ArgSingle("x")>>, <<"y", ArgSingle("y")>> >>)}

RECURSIVE Bodies(_)
\* expressions nested up to depth deep, every Lam in them built by makeLambda
Bodies(depth) ==
  IF depth = 0 THEN BodyAtoms
  ELSE BodyAtoms
       \cup {App(e, a) : e \in Bodies(depth - 1), a \in BodyAtoms}
       \cup {App(a, e) : e \in Bodies(depth - 1), a \in {Name("f")}}
       \cup {makeLambda(arg, e) : e \in Bodies(depth - 1), arg \in LambdaArgs}
       \cup {Cond(e, Name("y"), Name("x")) : e \in Bodies(depth - 1)}
       \cup {AstTable(<< <<"k", e>>, <<"y", Name("y")>> >>) : e \in Bodies(depth - 1)}

\* makeLambda(arg, expr), once
MakeLambda(arg, expr) ==
  /\ madeLambda = none
  /\ madeLambda' = makeLambda(arg, expr)
  /\ UNCHANGED exceptLambda

NextLambda ==
  \E arg \in LambdaArgs, expr \in Bodies(MaxBodyDepth) : MakeLambda(arg, expr)

SpecLambda == Init /\ [][NextLambda]_vars

(***************************************************************************)
(* lang/lexer.ts.  Each token's regular expression is the length of its    *)
(* match at a place of the source, 0 when it does not match there.         *)
(***************************************************************************)
charsOf(s) == {charAt(s, i) : i \in 1..Len(s)}

\* [a-zA-Z]
letters == charsOf("abcdefghijklmnopqrstuvwxyzABCDEFGHIJKLMNOPQRSTUVWXYZ")

\* \w
wordChars == letters \cup Range(digits) \cup {"_"}

\* [a-zA-Z_0-9?!]
nameChars == wordChars \cup {"?", "!"}

\* [-+=*/%!|&^$><?.]
opChars == charsOf("-+=*/%!|&^$><?.")

\* \s, as far as the sources tried go
whitespace == {" ", "\t", "\n", "\r"}

\* what `.` does not match
lineTerminators == {"\n", "\r"}

\* the length of the longest run of characters of class at place i
runOf(s, i, class) ==
  LET stops == {j \in i..(Len(s) + 1) : charAt(s, j) = "" \/ charAt(s, j) \notin class}
  IN IF i > Len(s) THEN 0 ELSE (CHOOSE j \in stops : \A k \in stops : j <= k) - i

\* the length of the longest run of characters not of class at place i
runOutside(s, i, class) ==
  LET stops == {j \in i..(Len(s) + 1) : charAt(s, j) = "" \/ charAt(s, j) \in class}
  IN IF i > Len(s) THEN 0 ELSE (CHOOSE j \in stops : \A k \in stops : j <= k) - i

\* word\b
keywordAt(s, i, word) ==
  IF /\ i + Len(word) - 1 <= Len(s)
     /\ SubSeq(s, i, i + Len(word) - 1) = word
     /\ charAt(s, i + Len(word)) \notin wordChars
    THEN Len(word) ELSE 0

\* \s+|#.*\n?
wsAt(s, i) ==
  IF runOf(s, i, whitespace) > 0 THEN runOf(s, i, whitespace)
  ELSE IF charAt(s, i) = "#"
    THEN 1 + runOutside(s, i + 1, lineTerminators)
         + (IF charAt(s, i + 1 + runOutside(s, i + 1, lineTerminators)) = "\n" THEN 1 ELSE 0)
  ELSE 0

\* (?![0-9?!])[a-zA-Z_0-9?!]+
nameAt(s, i) ==
  IF charAt(s, i) \in {"?", "!"} \cup Range(digits) THEN 0 ELSE runOf(s, i, nameChars)

\* (\.\d+)? at place j
fractionAt(s, j) ==
  IF charAt(s, j) = "." /\ runOf(s, j + 1, Range(digits)) > 0
    THEN 1 + runOf(s, j + 1, Range(digits)) ELSE 0

\* (e[-+]?\d+)? at place k
exponentAt(s, k) ==
  IF charAt(s, k) # "e" THEN 0
  ELSE IF charAt(s, k + 1) \in {"-", "+"}
    THEN (IF runOf(s, k + 2, Range(digits)) > 0
            THEN 2 + runOf(s, k + 2, Range(digits)) ELSE 0)
  ELSE IF runOf(s, k + 1, Range(digits)) > 0 THEN 1 + runOf(s, k + 1, Range(digits))
  ELSE 0

\* [-]?\d+(\.\d+)?(e[-+]?\d+)?
decAt(s, i) ==
  LET sign == IF charAt(s, i) = "-" THEN 1 ELSE 0
      whole == runOf(s, i + sign, Range(digits))
      fraction == fractionAt(s, i + sign + whole)
  IN IF whole = 0 THEN 0
     ELSE sign + whole + fraction + exponentAt(s, i + sign + whole + fraction)

\* \.(?=[^-+=*/%!|&^$><?.])
dotAt(s, i) ==
  IF charAt(s, i) = "." /\ charAt(s, i + 1) # "" /\ charAt(s, i + 1) \notin opChars
    THEN 1 ELSE 0

RECURSIVE stringEnd(_, _, _)
\* (?:\\.|[^q])*q from place j on: the place after the closing quote the
\* regular expression's search finds first, 0 when it finds none.  It tries
\* an escape pair, then a single character other than q, then the quote.
stringEnd(s, j, q) ==
  LET orQuote == IF charAt(s, j) = q THEN j + 1 ELSE 0
      orElse(end) == IF end # 0 THEN end ELSE orQuote
      orSingle(end) ==
        IF end # 0 THEN end
        ELSE IF charAt(s, j) # "" /\ charAt(s, j) # q THEN orElse(stringEnd(s, j + 1, q))
        ELSE orQuote
  IN IF /\ charAt(s, j) = "\\"
        /\ charAt(s, j + 1) # ""
        /\ charAt(s, j + 1) \notin lineTerminators
       THEN orSingle(stringEnd(s, j + 2, q))
       ELSE orSingle(0)

\* q(?:\\.|[^q])*q
stringAt(s, i, q) ==
  LET upTo(end) == IF end # 0 THEN end - i ELSE 0
  IN IF charAt(s, i) = q THEN upTo(stringEnd(s, i + 1, q)) ELSE 0

charAtIs(s, i, c) == IF charAt(s, i) = c THEN 1 ELSE 0

\* the groups of re, in order
tokenTypes ==
  <<"if", "then", "else", "ws", "lp", "rp", "lsq", "rsq", "lbr", "rbr", "col", "comma",
    "name", "dec", "dot", "op", "backtick", "string1", "string2", "semicolon">>

\* the length the group named type matches at place i
groupAt(type, s, i) ==
  CASE type \in {"if", "then", "else"} -> keywordAt(s, i, type)
    [] type = "ws" -> wsAt(s, i)
    [] type = "lp" -> charAtIs(s, i, "(")
    [] type = "rp" -> charAtIs(s, i, ")")
    [] type = "lsq" -> charAtIs(s, i, "[")
    [] type = "rsq" -> charAtIs(s, i, "]")
    [] type = "lbr" -> charAtIs(s, i, "{")
    [] type = "rbr" -> charAtIs(s, i, "}")
    [] type = "col" -> charAtIs(s, i, ":")
    [] type = "comma" -> charAtIs(s, i, ",")
    [] type = "name" -> nameAt(s, i)
    [] type = "dec" -> decAt(s, i)
    [] type = "dot" -> dotAt(s, i)
    [] type = "op" -> runOf(s, i, opChars)
    [] type = "backtick" -> charAtIs(s, i, "~")
    [] type = "string1" -> stringAt(s, i, "'")
    [] type = "string2" -> stringAt(s, i, "\"")
    [] type = "semicolon" -> charAtIs(s, i, ";")

\* the first group of re, from the k-th on, that matches at place i; "" when
\* none does
firstGroup(s, i, k) ==
  LET matching == {j \in k..Len(tokenTypes) : groupAt(tokenTypes[j], s, i) > 0}
  IN IF matching = {} THEN ""
     ELSE tokenTypes[CHOOSE j \in matching : \A m \in matching : j <= m]

\* getGroup: the group of the match at place i
getGroup(s, i) == firstGroup(s, i, 1)

RECURSIVE matchFrom(_, _)
\* the first place from i on where re matches, 0 when there is none
matchFrom(s, i) ==
  IF i > Len(s) THEN 0
  ELSE IF getGroup(s, i) # "" THEN i
  ELSE matchFrom(s, i + 1)

\* the place of the next match of re after latestPos characters
nextMatch(s, latestPos) == matchFrom(s, latestPos + 1)

\* lex before a turn of its for loop: latestPos and the tokens pushed so far
LexAt(latestPos, tokens) == [pc |-> "loop", latestPos |-> latestPos, tokens |-> tokens]

\* lex after its return
LexReturned(r) == [pc |-> "done", r |-> r]

\* a turn that goes on to the next match whatever lies before it
lexTurnSkippingGaps(src, run, withWs) ==
  LET pushed(k, m, len) ==
        LexAt(m - 1 + len,
              IF k # "ws" \/ withWs
                THEN Append(run.tokens, Token(k, m - 1, SubSeq(src, m, m + len - 1)))
                ELSE run.tokens)
      matched(m, k) == pushed(k, m, groupAt(k, src, m))
      atMatch(m) == IF m = 0 THEN LexReturned(Ok(run.tokens)) ELSE matched(m, getGroup(src, m))
  IN atMatch(nextMatch(src, run.latestPos))

\* one turn of the loop of lex over the matches of re, or what follows the
\* loop when there is no match left
lexTurn(src, run, withWs) ==
  LET pushed(k, m, len) ==
        LexAt(m - 1 + len,
              IF k # "ws" \/ withWs
                THEN Append(run.tokens, Token(k, m - 1, SubSeq(src, m, m + len - 1)))
                ELSE run.tokens)
      matched(m, k) == pushed(k, m, groupAt(k, src, m))
      atMatch(m) ==
        IF m = 0
          THEN IF run.latestPos # Len(src)
                 THEN LexReturned(Err("I don't understand: " \o slice(src, run.latestPos)))
                 ELSE LexReturned(Ok(run.tokens))
        ELSE IF run.latestPos < m - 1
          THEN LexReturned(Err("I don't understand: "
                               \o SubSeq(src, run.latestPos + 1, m - 1)))
        ELSE matched(m, getGroup(src, m))
  IN atMatch(nextMatch(src, run.latestPos))

RECURSIVE lexTurns(_, _, _, _)
\* up to 2^k turns of the loop
lexTurns(k, src, run, withWs) ==
  IF run.pc = "done" THEN run
  ELSE IF k = 0 THEN lexTurn(src, run, withWs)
  ELSE lexTurns(k - 1, src, lexTurns(k - 1, src, run, withWs), withWs)

\* lex(src, {includeWs}): Ok(the tokens), or Err(the string it returns instead)
lex(src, withWs) == lexTurns(MaxDoublings, src, LexAt(0, <<>>), withWs).r

ColorKeys == {"str", "num", "constant", "punctuation", "name", "keyword", "arg", "comment"}

\* tokenColor: the key of the ColorHandle for a token type; undefined for a
\* type the object literal has no entry for
tokenColor(tokenType) ==
  CASE tokenType \in {"if", "then", "else", "op", "backtick"} -> "keyword"
    [] tokenType = "ws" -> "comment"
    [] tokenType \in {"lp", "rp", "lsq", "rsq", "lbr", "rbr", "col", "semicolon", "comma"} ->
         "punctuation"
    [] tokenType = "name" -> "name"
    [] tokenType = "dot" -> "constant"
    [] tokenType = "num" -> "num"
    [] tokenType \in {"string1", "string2"} -> "str"
    [] OTHER -> "undefined"

\* identityColorHandle[key](text)
identityColorHandle(key, text) == text

RECURSIVE _highlightGen(_)
\* [..._highlightGen(tokens, identityColorHandle)].join(''): Ok(the text), or
\* the TypeError of calling h[undefined]
_highlightGen(tokens) ==
  LET rest(text, more) == IF IsOk(more) THEN Ok(text \o more.ok) ELSE more
  IN IF tokens = <<>> THEN Ok("")
     ELSE IF tokenColor(tokens[1].type) \notin ColorKeys
       THEN Throw("TypeError: h[col] is not a function")
     ELSE rest(identityColorHandle(tokenColor(tokens[1].type), tokens[1].content),
               _highlightGen(Tail(tokens)))

\* highlightCode(code, identityColorHandle): Ok(<<ok?, text>>) or the exception
highlightCode(src) ==
  LET withTokens(tokens) ==
        IF IsErr(tokens) THEN Ok(<<FALSE, tokens.err>>)
        ELSE LET joined(text) == IF IsOk(text) THEN Ok(<<TRUE, text.ok>>) ELSE text
             IN joined(_highlightGen(tokens.ok))
  IN withTokens(lex(src, TRUE))

(***************************************************************************)
(* The lexer on its own: one call of lex or highlightCode on a string      *)
(***************************************************************************)
\* the most pieces a source string is made of
MaxPieces == 3

CodePieces ==
  {"a", "1", "?", "_", " ", "#", "\n", "if", ".", "-", "'", "\\", "@"}

RECURSIVE CodesOf(_)
\* the strings of exactly n pieces
CodesOf(n) ==
  IF n = 0 THEN {""} ELSE {c \o piece : c \in CodesOf(n - 1), piece \in CodePieces}

Codes == UNION {CodesOf(n) : n \in 0..MaxPieces}

\* the string of the call is drawn at the start
InitLexer ==
  /\ InterpreterMade
  /\ YardIdle
  /\ ParserMade
  /\ madeLambda = none
  /\ NoMultilineParse
  /\ NoRepl
  /\ code \in Codes
  /\ includeWs = FALSE
  /\ NothingLexed
  /\ NoCombParser
  /\ NothingUnparsed

\* lex(code, {includeWs: withWs})
Lex(withWs) ==
  /\ NothingLexed
  /\ includeWs' = withWs
  /\ lexed' = lex(code, withWs)
  /\ UNCHANGED <<code, highlighted, exceptLexer>>

\* highlightCode(code, identityColorHandle)
HighlightCode ==
  /\ NothingLexed
  /\ highlighted' = highlightCode(code)
  /\ UNCHANGED <<code, includeWs, lexed, exceptLexer>>

NextLexer ==
  \/ \E withWs \in BOOLEAN : Lex(withWs)
  \/ HighlightCode

SpecLexer == InitLexer /\ [][NextLexer]_vars

(***************************************************************************)
(* The combinators on their own: one parse of a parser built from them     *)
(***************************************************************************)
\* the deepest nesting of combinators in the parsers tried
MaxCombDepth == 2

CombLeaves ==
  {oneOf(<<"name">>), always("v"), fail("r"), failUnrecoverable("u"), failUnrecoverable("w")}

RECURSIVE canSucceedEmpty(_)
\* p can succeed without consuming a token (many(p) would not end)
canSucceedEmpty(p) ==
  CASE p.p \in {"always", "lookAhead", "many"} -> TRUE
    [] p.p \in {"oneOf", "fail"} -> FALSE
    [] p.p = "map" -> canSucceedEmpty(p.self)
    [] p.p = "flatMap" -> canSucceedEmpty(p.self) /\ canSucceedEmpty(p.f.other)
    [] p.p = "or" -> canSucceedEmpty(p.self) \/ canSucceedEmpty(p.other)

RECURSIVE CombParsers(_)
\* the parsers nested up to depth deep
CombParsers(depth) ==
  IF depth = 0 THEN CombLeaves
  ELSE CombLeaves
       \cup {or(e, l) : e \in CombParsers(depth - 1), l \in CombLeaves}
       \cup {or(l, e) : e \in CombParsers(depth - 1),
                         l \in {oneOf(<<"name">>), fail("r"), failUnrecoverable("u")}}
       \cup {orBail(e, "b") : e \in CombParsers(depth - 1)}
       \cup {many(e) : e \in {x \in CombParsers(depth - 1) : ~canSucceedEmpty(x)}}
       \cup {map(e, Fn("ArgSingle")) : e \in CombParsers(depth - 1)}
       \cup {then(e, l) : e \in CombParsers(depth - 1), l \in CombLeaves}
       \cup {then(oneOf(<<"name">>), e) : e \in CombParsers(depth - 1)}
       \cup {lookAhead(e) : e \in CombParsers(depth - 1)}

\* streams of up to two tokens, and what is left of them after a token
CombStreams ==
  {<<>>, <<tok("name", 0, "a")>>, <<tok("name", 1, "b")>>,
   <<tok("name", 0, "a"), tok("name", 1, "b")>>}

\* the parser and the stream are drawn at the start
InitComb ==
  /\ InterpreterMade
  /\ YardIdle
  /\ ParserMade
  /\ madeLambda = none
  /\ NoMultilineParse
  /\ NoRepl
  /\ code = ""
  /\ includeWs = FALSE
  /\ NothingLexed
  /\ combParser \in CombParsers(MaxCombDepth)
  /\ combSrc \in CombStreams
  /\ combResult = none
  /\ NothingUnparsed

\* combParser.parse(combSrc)
CombParse ==
  /\ combResult = none
  /\ combResult' = Parse(combParser, combSrc, DEFAULT_PARSER_OPTIONS)
  /\ UNCHANGED <<combParser, combSrc, exceptComb>>

NextComb == CombParse

SpecComb == InitComb /\ [][NextComb]_vars

(***************************************************************************)
(* lang/parser.ts: unparse, with the identity color handle                 *)
(***************************************************************************)
RECURSIVE natToString(_)
natToString(n) ==
  IF n < 10 THEN digits[n + 1] ELSE natToString(n \div 10) \o digits[(n % 10) + 1]

RECURSIVE padLeft(_, _)
\* s with zeros before it up to n characters
padLeft(s, n) == IF Len(s) >= n THEN s ELSE padLeft("0" \o s, n)

\* the least k with d dividing 10^k, for the denominator of a decimal
decimalPlaces(d) == CHOOSE k \in 0..12 : IntPow(10, k) % d = 0 /\ \A j \in 0..(k - 1) : IntPow(10, j) % d # 0

\* Big.toString() of a number written without an exponent
bigToString(x) ==
  LET k == decimalPlaces(x.d)
      scaled == (Abs(x.n) * IntPow(10, k)) \div x.d
  IN (IF x.n < 0 THEN "-" ELSE "")
     \o natToString(scaled \div IntPow(10, k))
     \o (IF k = 0 THEN "" ELSE "." \o padLeft(natToString(scaled % IntPow(10, k)), k))

\* /^(?![0-9])[a-zA-Z_0-9]+$/.test(s)
isIdentifier(s) ==
  /\ s # ""
  /\ ~isDigit(charAt(s, 1))
  /\ \A i \in 1..Len(s) : charAt(s, i) \in wordChars

RECURSIVE unparseArg(_)
unparseArg(arg) ==
  IF arg.tag = "ArgSingle" THEN arg.single
  ELSE "{"
       \o join([i \in 1..Len(arg.table) |->
                  IF arg.table[i][2].tag = "ArgSingle" /\ arg.table[i][2].single = arg.table[i][1]
                    THEN arg.table[i][1]
                    ELSE arg.table[i][1] \o ": " \o unparseArg(arg.table[i][2])],
               ", ")
       \o "}"

\* extractLeftOperatorSection(lam) !== null
isLeftOperatorSection(lam) ==
  /\ lam.arg.tag = "ArgSingle"
  /\ lam.arg.single = "_"
  /\ lam.expr.tag = "App"
  /\ lam.expr.fun.tag = "App"
  /\ lam.expr.fun.fun.tag = "Name"
  /\ ~isIdentifier(lam.expr.fun.fun.name)
  /\ lam.expr.fun.arg.tag = "Name"
  /\ lam.expr.fun.arg.name = "_"

RECURSIVE appArgs(_)
\* unparseApp: the function and the arguments of a chain of applications
appArgs(e) ==
  IF e.fun.tag = "App" THEN Append(appArgs(e.fun), e.arg) ELSE <<e.fun, e.arg>>

RECURSIVE lamArgs(_)
\* unparseLam: the parameters of the nested lambdas, and then the body
lamArgs(lam) ==
  IF lam.expr.tag = "Lam" THEN <<lam.arg>> \o lamArgs(lam.expr) ELSE <<lam.arg, lam.expr>>

\* the most nested tables and conditionals unparse writes out
MaxUnparseDepth == 12

RECURSIVE unparse(_, _)
unparse(expr, depth) ==
  IF depth > MaxUnparseDepth THEN "..."
  ELSE CASE expr.tag = "Name" ->
              IF isIdentifier(expr.name) THEN expr.name ELSE "(" \o expr.name \o ")"
         [] expr.tag = "Dec" -> bigToString(expr.dec)
         [] expr.tag = "Str" -> stringify(expr.str)
         [] expr.tag = "Symbol" -> ":" \o expr.symbol
         [] expr.tag = "Table" ->
              "{" \o join([i \in 1..Len(expr.pairs) |->
                             expr.pairs[i][1] \o ": " \o unparse(expr.pairs[i][2], depth + 1)],
                          ", ")
              \o "}"
         [] expr.tag = "App" ->
              "(" \o join([i \in 1..Len(appArgs(expr)) |-> unparse(appArgs(expr)[i], 0)], " ")
              \o ")"
         [] expr.tag = "Lam" ->
              IF isLeftOperatorSection(expr)
                THEN "(" \o expr.expr.fun.fun.name \o " " \o unparse(expr.expr.arg, 0) \o ")"
                ELSE "("
                     \o join([i \in 1..(Len(lamArgs(expr)) - 1) |-> unparseArg(lamArgs(expr)[i])],
                             " ")
                     \o ". " \o unparse(Last(lamArgs(expr)), 0) \o ")"
         [] expr.tag = "Cond" ->
              join(<<"if", unparse(expr.if, depth + 1),
                     "then", unparse(expr.then, depth + 1),
                     "else", unparse(expr.else, depth + 1)>>, " ")

(***************************************************************************)
(* unparse, then lex, then the expression parser                           *)
(***************************************************************************)
\* the deepest nesting of the expressions handed to unparse
MaxAstDepth == 2

AstAtoms == {Name("a"), Dec(Rat(3, 2)), DecInt(-1), AstStr("s\"t")}

\* the literals that are handed to unparse on their own only
AstLiterals == {AstSymbol("k"), AstTable(<<>>)}

AstArgs == {ArgSingle("x"), ArgTable(<< <<"k", ArgSingle("x")>>, <<"y", ArgSingle("y")>> >>)}

RECURSIVE Asts(_)
\* expressions without operators, nested up to depth deep
Asts(depth) ==
  IF depth = 0 THEN AstAtoms
  ELSE AstAtoms
       \cup {App(e, Name("b")) : e \in Asts(depth - 1)}
       \cup {App(Name("a"), e) : e \in Asts(depth - 1)}
       \cup {makeLambda(arg, e) : e \in Asts(depth - 1), arg \in AstArgs}
       \cup {Cond(e, Name("a"), Name("b")) : e \in Asts(depth - 1)}
       \cup {Cond(Name("a"), Name("b"), e) : e \in Asts(depth - 1)}
       \cup {AstTable(<< <<"k", e>>, <<"b", Name("b")>> >>) : e \in Asts(depth - 1)}

\* the expression is drawn at the start
InitUnparse ==
  /\ InterpreterMade
  /\ YardIdle
  /\ ParserMade
  /\ madeLambda = none
  /\ NoMultilineParse
  /\ NoRepl
  /\ code = ""
  /\ includeWs = FALSE
  /\ NothingLexed
  /\ NoCombParser
  /\ ast \in Asts(MaxAstDepth) \cup AstLiterals
  /\ unparsed = ""
  /\ reparsed = none

\* the parse of a text: lex(text), then the expression parser on the tokens;
\* Err(the string lex returned) when it returned one
parseText(text) ==
  LET parsed(tokens) ==
        IF IsErr(tokens) THEN tokens
        ELSE Parse(exprParser_, tokens.ok, DEFAULT_PARSER_OPTIONS)
  IN parsed(lex(text, FALSE))

\* unparse(ast), and the parse of what it returned
Unparse ==
  /\ reparsed = none
  /\ unparsed' = unparse(ast, 0)
  /\ reparsed' = parseText(unparse(ast, 0))
  /\ UNCHANGED <<ast, exceptUnparse>>

NextUnparse == Unparse

SpecUnparse == InitUnparse /\ [][NextUnparse]_vars

(***************************************************************************)
(* Interpreter.runLine: lex, parse one expression, run it                  *)
(***************************************************************************)
\* tokens.map(t => t.content)
contents(tokens) == [i \in 1..Len(tokens) |-> tokens[i].content]

\* the LangError of tokens still left after the expression
leftoverError(tokens, remainingTokens) ==
  [type |-> "parseError",
   msg |-> "I have parsed "
           \o join(contents(SubSeq(tokens, 1, Len(tokens) - Len(remainingTokens))), " ")
           \o " but there's still a leftover: " \o join(contents(remainingTokens), " ")
           \o ".\nPerhaps you forgot an opening (, [ or {, or to write a function body?"]

\* what a call returned, with the expressions it handed to runAst
Ran(rv, exprs) == [r |-> rv.r, st |-> rv.st, log |-> rv.log, ran |-> exprs]

\* a runLine that runs the expression whatever is left after it
runParsedWhateverIsLeft(tokens, expr, remainingTokens, st) ==
  Ran(runAst(expr, st), <<expr>>)

\* runLine, once the parser returned Ok([expr, remainingTokens])
runParsed(tokens, expr, remainingTokens, st) ==
  IF Len(remainingTokens) # 0
    THEN Ran(Ret(Err(leftoverError(tokens, remainingTokens)), st, <<>>), <<>>)
  ELSE Ran(runAst(expr, st), <<expr>>)

\* Interpreter.runLine(line); opts are the options of this.stParser's parser.
\* An exception of the parser leaves runLine as it is.
runLine(line, opts, st) ==
  LET parsed(tokens, parsedE) ==
        IF IsThrow(parsedE) THEN Ran(Ret(parsedE, st, <<>>), <<>>)
        ELSE IF IsErr(parsedE)
          THEN Ran(Ret(Err([type |-> "parseError", msg |-> parsedE.err.msg]), st, <<>>), <<>>)
        ELSE runParsed(tokens, parsedE.ok[1], parsedE.ok[2], st)
      lexedTo(tokens) ==
        IF IsErr(tokens)
          THEN Ran(Ret(Err([type |-> "lexError", msg |-> tokens.err]), st, <<>>), <<>>)
        ELSE parsed(tokens.ok, Parse(exprParser_, tokens.ok, opts))
  IN lexedTo(lex(line, FALSE))

\* the most lines handed to one interpreter
MaxLines == 3

\* lines that are one expression, lines with tokens after the expression,
\* a line that does not parse and a line that does not lex
RunLines ==
  {":x .= 1", "x", ":x .= 2 )", ":x .= 2; x", "x }", "(x", "x @"}

RunLine(line) ==
  LET done(out) ==
        /\ rootNames' = out.st.names
        /\ Stored(out.st)
        /\ history' = history \o out.ran
        /\ lastResult' = out.r
        /\ lastLog' = out.log
  IN /\ Len(lines) < MaxLines
     /\ lines' = Append(lines, line)
     /\ done(runLine(line, closureOptions, Store))
     /\ UNCHANGED exceptInterp

NextLine == \E line \in RunLines : RunLine(line)

SpecLine == Init /\ [][NextLine]_vars

(***************************************************************************)
(* Interpreter.runMultiline and its kin: lex, parse every expression, run  *)
(* them one by one                                                         *)
(***************************************************************************)
RECURSIVE trimStart(_)
trimStart(s) == IF charAt(s, 1) \in whitespace THEN trimStart(slice(s, 1)) ELSE s

RECURSIVE trimEnd(_)
trimEnd(s) ==
  IF charAt(s, Len(s)) \in whitespace THEN trimEnd(SubSeq(s, 1, Len(s) - 1)) ELSE s

\* String.trim
trim(s) == trimEnd(trimStart(s))

\* parseMultilineTurn without the assignment to stream: the expression is
\* pushed and the loop goes on with the stream it had
parseMultilineTurnKeepingStream(parsedE, stream, expressions) ==
  IF IsThrow(parsedE) THEN [done |-> TRUE, r |-> parsedE]
  ELSE IF IsErr(parsedE)
    THEN [done |-> TRUE, r |-> Err([type |-> "parseError", msg |-> parsedE.err.msg])]
  ELSE [done |-> FALSE, stream |-> stream,
        expressions |-> Append(expressions, parsedE.ok[1])]

\* one turn of the while loop of parseMultiline, the stream not being empty
\* and parsedE being what this.parse(stream) returned: the return that ends
\* the loop, or the stream and the expressions after it
parseMultilineTurn(parsedE, stream, expressions) ==
  IF IsThrow(parsedE) THEN [done |-> TRUE, r |-> parsedE]
  ELSE IF IsErr(parsedE)
    THEN [done |-> TRUE, r |-> Err([type |-> "parseError", msg |-> parsedE.err.msg])]
  ELSE [done |-> FALSE, stream |-> parsedE.ok[2],
        expressions |-> Append(expressions, parsedE.ok[1])]

RECURSIVE parseMultilineFrom(_, _, _)
parseMultilineFrom(stream, expressions, opts) ==
  LET turned(t) ==
        IF t.done THEN t.r ELSE parseMultilineFrom(t.stream, t.expressions, opts)
  IN IF Len(stream) = 0 THEN Ok(expressions)
     ELSE turned(parseMultilineTurn(Parse(exprParser_, stream, opts), stream, expressions))

\* StatefulParser.parseMultiline
parseMultiline(stream, opts) == parseMultilineFrom(stream, <<>>, opts)

\* what runMultilineWithCallback did: the values handed to onValue, what
\* stopped it (null, the error handed to onError, or an exception), the store,
\* the expressions handed to runAst and their events
Called(values, r, st, ran, log) ==
  [values |-> values, r |-> r, st |-> st, ran |-> ran, log |-> log]

\* a loop that goes on to the next expression after an error, and reports the
\* first error at the end
RECURSIVE runExpressionsPastErrors(_, _)
runExpressionsPastErrors(expressions, sofar) ==
  LET evaluated(expr, rv) ==
        IF IsThrow(rv.r)
          THEN Called(sofar.values, rv.r, rv.st, Append(sofar.ran, expr), sofar.log \o rv.log)
        ELSE runExpressionsPastErrors(
               Tail(expressions),
               Called(IF IsOk(rv.r) THEN Append(sofar.values, rv.r.ok) ELSE sofar.values,
                      IF sofar.r = null /\ IsErr(rv.r) THEN rv.r ELSE sofar.r,
                      rv.st, Append(sofar.ran, expr), sofar.log \o rv.log))
  IN IF expressions = <<>> THEN sofar
     ELSE evaluated(Head(expressions), runAst(Head(expressions), sofar.st))

RECURSIVE runExpressions(_, _)
\* the for loop of runMultilineWithCallback
runExpressions(expressions, sofar) ==
  LET evaluated(expr, rv) ==
        IF IsOk(rv.r)
          THEN runExpressions(Tail(expressions),
                              Called(Append(sofar.values, rv.r.ok), null, rv.st,
                                     Append(sofar.ran, expr), sofar.log \o rv.log))
        ELSE Called(sofar.values, rv.r, rv.st, Append(sofar.ran, expr), sofar.log \o rv.log)
  IN IF expressions = <<>> THEN sofar
     ELSE evaluated(Head(expressions), runAst(Head(expressions), sofar.st))

\* the start of runMultilineWithCallback, up to the for loop: what is handed
\* to onError (or the exception), or Ok(the expressions)
parsedSource(source, opts) ==
  LET lexedTo(stream) ==
        IF IsErr(stream) THEN Err([type |-> "lexError", msg |-> stream.err])
        ELSE parseMultiline(stream.ok, opts)
  IN lexedTo(lex(trim(source), FALSE))

\* the files of the disk
Files ==
  << <<(<<"w", "m">>), ":w_m">>,
     <<(<<"w", "sub", "m">>), ":sub_m">>,
     <<(<<"w", "sub", "index">>), "IO:require './m'">>,
     <<(<<"w", "self">>), "IO:require './self'">>,
     <<(<<"w", "stale">>), "(Imp:early_return (return. return)) 1">>,
     <<(<<"w", "bad">>), ":x .= 1; nowhere">>,
     <<(<<"w", "unparsed">>), "(1">>,
     <<(<<"app", "stdlib", "util">>), ":y .= 2; IO:log 'util'; y + 1">> >>

\* What parsedSource returns for the source of every file under the options of
\* a new StatefulParser, written out.  lex and parseMultiline are functions of
\* the source and the options alone, so a load reads what they return here.
FilesParsed ==
  << Ok(<<AstSymbol("w_m")>>),
     Ok(<<AstSymbol("sub_m")>>),
     Ok(<<App(App(Name("IO"), AstSymbol("require")), AstStr("./m"))>>),
     Ok(<<App(App(Name("IO"), AstSymbol("require")), AstStr("./self"))>>),
     Ok(<<App(App(App(Name("Imp"), AstSymbol("early_return")),
                  makeLambda(ArgSingle("return"), Name("return"))),
              DecInt(1))>>),
     Ok(<<Assign("x", DecInt(1)), Name("nowhere")>>),
     Err([type |-> "parseError", msg |-> "Unexpected end of input"]),
     Ok(<<Assign("y", DecInt(2)),
          App(App(Name("IO"), AstSymbol("log")), AstStr("util")),
          BinOp("+", Name("y"), DecInt(1))>>) >>

\* FilesParsed is what lex and parseMultiline make of the files
FilesParsedFromSource ==
  \A i \in 1..Len(Files) :
    FilesParsed[i] = parsedSource(Files[i][2], DEFAULT_PARSER_OPTIONS)

FileParsed(source) == FilesParsed[CHOOSE i \in 1..Len(Files) : Files[i][2] = source]

\* Interpreter.runMultilineWithCallback(source, onValue, onError) from the for
\* loop on; parsedE is what the lines before it (parsedSource) made of source
runMultilineWithCallback(parsedE, st) ==
  IF IsOk(parsedE) THEN runExpressions(parsedE.ok, Called(<<>>, null, st, <<>>, <<>>))
  ELSE Called(<<>>, parsedE, st, <<>>, <<>>)

\* Interpreter.runMultiline(source)
runMultiline(source, opts, st) ==
  LET returns(out) ==
        [r |-> IF out.r # null THEN out.r ELSE Ok(out.values),
         st |-> out.st, ran |-> out.ran, log |-> out.log]
  IN returns(runMultilineWithCallback(parsedSource(source, opts), st))

\* Interpreter.runMultilineReturnLast(source).  Its one caller is
\* resolveModule, with the source of a file and a new interpreter, whose
\* parser has the default options: parsedSource of it is read from FilesParsed
runMultilineReturnLast(source, st) ==
  LET returns(out) ==
        [r |-> IF out.r # null THEN out.r
               ELSE IF out.values = <<>>
                 THEN Err(RuntimeError(Other(Str("runMultilineReturnLast: no value got produced"))))
               ELSE Ok(Last(out.values)),
         st |-> out.st, ran |-> out.ran, log |-> out.log]
  IN returns(runMultilineWithCallback(FileParsed(source), st))

(***************************************************************************)
(* execution.ts: the module cache and resolveModule.  A path is the        *)
(* sequence of its segments; the files are a Map from paths to sources.    *)
(***************************************************************************)
startsWith(s, prefix) == Len(s) >= Len(prefix) /\ SubSeq(s, 1, Len(prefix)) = prefix

RECURSIVE splitPath(_)
\* s.split('/')
splitPath(s) ==
  IF indexOf(s, "/") = 0 THEN <<s>>
  ELSE <<SubSeq(s, 1, indexOf(s, "/") - 1)>> \o splitPath(slice(s, indexOf(s, "/")))

RECURSIVE normalize(_, _)
\* the segments of a path after those of onto: `.` stays, `..` goes up
normalize(segments, onto) ==
  IF segments = <<>> THEN onto
  ELSE normalize(Tail(segments),
                 IF Head(segments) \in {"", "."} THEN onto
                 ELSE IF Head(segments) = ".." THEN (IF onto = <<>> THEN onto ELSE Front(onto))
                 ELSE Append(onto, Head(segments)))

\* path.resolve(base, name), base an absolute path
pathResolve(base, name) ==
  IF startsWith(name, "/") THEN normalize(splitPath(name), <<>>)
  ELSE normalize(splitPath(name), base)

\* path.dirname
dirname(path) == IF path = <<>> THEN path ELSE Front(path)

STDLIB_PATH == <<"app", "stdlib">>

\* Symbol('__circular_import__')
CircularImport == Symbol("__circular_import__")

\* the names a plain object has before any is set: `name in {}` holds of them
ObjectPrototypeNames ==
  {"constructor", "toString", "valueOf", "hasOwnProperty", "isPrototypeOf",
   "propertyIsEnumerable", "toLocaleString", "__proto__"}

\* a resolveModule whose new interpreter leaves its names to the caller
loadModuleKeepingNames(moduleName, modulePath, source, st) ==
  LET back(after) == [after EXCEPT !.location = st.location]
      ended(result) ==
        IF IsThrow(result.r) THEN [r |-> result.r, st |-> back(result.st)]
        ELSE IF IsOk(result.r)
          THEN [r |-> result.r,
                st |-> [back(result.st) EXCEPT !.cache = MapSet(@, moduleName, result.r.ok)]]
        ELSE [r |-> result.r,
              st |-> [back(result.st) EXCEPT !.cache = MapDelete(@, moduleName)]]
  IN ended(runMultilineReturnLast(
             source,
             [st EXCEPT !.names = makeEnv, !.location = dirname(modulePath),
                        !.cache = MapSet(@, moduleName, CircularImport)]))

\* resolveModule from `const interpreter = new Interpreter(...)` on: the load
\* runs in the new interpreter's environment and location, and the names and
\* the location of the calling interpreter are as they were after it
loadModule(moduleName, modulePath, source, st) ==
  LET back(after) == [after EXCEPT !.names = st.names, !.location = st.location]
      ended(result) ==
        IF IsThrow(result.r) THEN [r |-> result.r, st |-> back(result.st)]
        ELSE IF IsOk(result.r)
          THEN [r |-> result.r,
                st |-> [back(result.st) EXCEPT !.cache = MapSet(@, moduleName, result.r.ok)]]
        ELSE [r |-> result.r,
              st |-> [back(result.st) EXCEPT !.cache = MapDelete(@, moduleName)]]
  IN ended(runMultilineReturnLast(
             source,
             [st EXCEPT !.names = makeEnv, !.location = dirname(modulePath),
                        !.cache = MapSet(@, moduleName, CircularImport)]))

resolveModule(location, moduleName, st) ==
  LET searchPaths ==
        IF startsWith(moduleName, "./") \/ startsWith(moduleName, "../")
          THEN <<location, Cwd>>
          ELSE <<STDLIB_PATH>>
      readable == {i \in 1..Len(searchPaths) :
                     MapHas(Files, pathResolve(searchPaths[i], moduleName))}
      first == CHOOSE i \in readable : \A j \in readable : i <= j
      modulePath == pathResolve(searchPaths[first], moduleName)
  IN IF MapHas(st.cache, moduleName) THEN [r |-> Ok(MapGet(st.cache, moduleName)), st |-> st]
     ELSE IF moduleName \in ObjectPrototypeNames THEN [r |-> Ok(undefined), st |-> st]
     ELSE IF readable = {} THEN [r |-> null, st |-> st]
     ELSE loadModule(moduleName, modulePath, MapGet(Files, modulePath), st)

\* Interpreter.runMultiline(source) on the session's interpreter
RunMultiline(source) ==
  LET done(out) ==
        /\ rootNames' = out.st.names
        /\ Stored(out.st)
        /\ history' = history \o out.ran
        /\ lastResult' = out.r
        /\ lastLog' = out.log
  IN /\ Len(lines) < MaxLines
     /\ lines' = Append(lines, source)
     /\ done(runMultiline(source, closureOptions, Store))
     /\ UNCHANGED exceptInterp

\* `IO:require 'name'`
Require(name) == App(App(Name("IO"), AstSymbol("require")), AstStr(name))

\* the modules a session requires
ModuleNames == <<"./m", "./sub/index", "./self", "./stale", "./bad", "./unparsed", "util", "./nothing">>

\* the most requires of a session
MaxRequires == 3

NextModules ==
  \E i \in 1..Len(ModuleNames) :
    /\ Len(history) < MaxRequires
    /\ RunAst(Require(ModuleNames[i]))

SpecModules == Init /\ [][NextModules]_vars


(***************************************************************************)
(* A session of sources handed to runMultiline                             *)
(***************************************************************************)
\* three expressions that succeed; a second expression that fails before a
\* third; a source whose end does not parse, and one whose end does not lex,
\* after expressions that would bind and write; no expression at all; a name
\* that an earlier source may have bound
MultilineSources ==
  {":a .= 1; IO:log 'x'; a + 1", ":a .= 2; nowhere; IO:log 'y'", "IO:log 'p'; :a .= 3; (1",
   ":a .= 4; IO:log 'q'; @", " ", "a"}

NextMultiline == \E source \in MultilineSources : RunMultiline(source)

SpecMultiline == Init /\ [][NextMultiline]_vars

(***************************************************************************)
(* A session of lines that apply left operator sections                    *)
(***************************************************************************)
\* sections whose operand is a literal, a name of the root environment, the
\* parameter of an enclosing function, and the name `_` bound by the root
\* environment or by an enclosing function
SectionLines ==
  {":_ .= 5", ":y .= 7", "(+ 2) 1", "(+ y) 1", "(y. (+ y) 1) 4", "(+ _) 1",
   "(_. (+ _) 1) 5"}

NextSection == \E line \in SectionLines : RunLine(line)

SpecSection == Init /\ [][NextSection]_vars


(***************************************************************************)
(* A session of lines that bind and unbind names of the root environment,  *)
(* at the top level and from inside functions                              *)
(***************************************************************************)
\* `.=`, IO:define, IO:forget and IO:unpack at the top level and in the body
\* of a function whose parameter has the name they bind; IO:define whose
\* value mentions the name, and whose value fails; a module that binds y
NameLines ==
  {":n .= 1", "IO:define :n 5", "IO:define :n (n + 1)", "IO:define :n nowhere",
   "IO:forget :n", "IO:unpack {n: 3, k: 4}", "(n. (:n .= 9) + n) 3",
   "(n. (k. IO:define :n k) 7) 3", "IO:require 'util'"}

NextNames == \E line \in NameLines : RunLine(line)

SpecNames == Init /\ [][NextNames]_vars

(***************************************************************************)
(* A session of programs that use Imp:early_return and Imp:while           *)
(***************************************************************************)
\* `Imp:key`
ImpOf(key) == App(Name("Imp"), AstSymbol(key))

\* `Imp:early_return f`
EarlyReturn(f) == App(ImpOf("early_return"), f)

\* `Imp:while condition body`
While(condition, body) == App(App(ImpOf("while"), condition), body)

\* `Imp:chain a b`
ImpChain(a, b) == App(App(ImpOf("chain"), a), b)

\* `x. body`
LamOf(x, body) == makeLambda(ArgSingle(x), body)

\* `_. true`
Forever == LamOf("_", Name("true"))

\* `Imp:early_return (return. 1)`
OwnResult == EarlyReturn(LamOf("return", DecInt(1)))

\* `Imp:early_return (return. Imp:chain (return 1) (:x .= 2))`
ReturnThenAssign ==
  EarlyReturn(LamOf("return", ImpChain(App(Name("return"), DecInt(1)), Assign("x", DecInt(2)))))

\* `Imp:early_return (outer. (Imp:early_return (inner. inner 1)) + 10)`
InnerReturn ==
  EarlyReturn(LamOf("outer",
    BinOp("+", EarlyReturn(LamOf("inner", App(Name("inner"), DecInt(1)))), DecInt(10))))

\* `Imp:early_return (outer. (Imp:early_return (inner. outer 1)) + 10)`
OuterFromInner ==
  EarlyReturn(LamOf("outer",
    BinOp("+", EarlyReturn(LamOf("inner", App(Name("outer"), DecInt(1)))), DecInt(10))))

\* `Imp:early_return (return. Imp:while (_. true) (loop. return 5))`
ReturnFromLoop ==
  EarlyReturn(LamOf("return", While(Forever, LamOf("loop", App(Name("return"), DecInt(5))))))

\* `Imp:while (_. true) (loop. loop:break {})`
BreakLoop ==
  While(Forever, LamOf("loop", App(App(Name("loop"), AstSymbol("break")), emptyTable)))

\* `Imp:chain (:go .= true)
\*    (Imp:while (_. go) (loop. Imp:chain (:go .= false) (loop:continue {})))`
ContinueLoop ==
  ImpChain(Assign("go", Name("true")),
        While(LamOf("_", Name("go")),
              LamOf("loop",
                    ImpChain(Assign("go", Name("false")),
                          App(App(Name("loop"), AstSymbol("continue")), emptyTable)))))

\* `(Imp:early_return (return. return)) 1`
StaleReturn == App(EarlyReturn(LamOf("return", Name("return"))), DecInt(1))

\* `:r .= Imp:early_return (return. return)`
AssignReturn == Assign("r", EarlyReturn(LamOf("return", Name("return"))))

\* `Imp:early_return (return. Imp:chain (r 1) (:x .= 2))`
CallAssignedReturn ==
  EarlyReturn(LamOf("return", ImpChain(App(Name("r"), DecInt(1)), Assign("x", DecInt(2)))))

\* `(Imp:early_return (return. Imp:while (_. true) (loop. return (loop:break)))) {}`
StaleBreak ==
  App(EarlyReturn(LamOf("return",
        While(Forever,
              LamOf("loop", App(Name("return"), App(Name("loop"), AstSymbol("break"))))))),
      emptyTable)

ImpPrograms ==
  <<OwnResult, ReturnThenAssign, InnerReturn, OuterFromInner, ReturnFromLoop, BreakLoop,
    ContinueLoop, StaleReturn, AssignReturn, CallAssignedReturn, StaleBreak>>

\* the most programs handed to one interpreter
MaxImpRuns == 2

NextImp ==
  \E i \in 1..Len(ImpPrograms) :
    /\ Len(history) < MaxImpRuns
    /\ RunAst(ImpPrograms[i])

SpecImp == Init /\ [][NextImp]_vars


(***************************************************************************)
(* A session of programs that use Imp:while with break and continue        *)
(***************************************************************************)
\* `loop:key {}`
LoopCall(loop, key) == App(App(Name(loop), AstSymbol(key)), emptyTable)

\* `IO:unpack {d: false, go: true}`
SetFlags ==
  App(App(Name("IO"), AstSymbol("unpack")),
      AstTable(<< <<"d", Name("false")>>, <<"go", Name("true")>> >>))

\* `Imp:while (_. true) (loop. if d then loop:break {} else :d .= true)`
BreakAfterStep ==
  While(Forever,
        LamOf("loop", Cond(Name("d"), LoopCall("loop", "break"), Assign("d", Name("true")))))

\* `Imp:while (_. go)
\*    (loop. if d then Imp:chain (:go .= false) (loop:continue {}) else :d .= true)`
ContinueAfterStep ==
  While(LamOf("_", Name("go")),
        LamOf("loop", Cond(Name("d"),
                           ImpChain(Assign("go", Name("false")), LoopCall("loop", "continue")),
                           Assign("d", Name("true")))))

\* `Imp:while (_. go)
\*    (out. Imp:chain (Imp:while (_. true) (in. in:break {})) (:go .= false))`
InnerBreak ==
  While(LamOf("_", Name("go")),
        LamOf("out", ImpChain(While(Forever, LamOf("in", LoopCall("in", "break"))),
                              Assign("go", Name("false")))))

\* `Imp:while (_. true) (out. Imp:while (_. true) (in. out:break {}))`
OuterBreakFromInner ==
  While(Forever, LamOf("out", While(Forever, LamOf("in", LoopCall("out", "break")))))

\* `Imp:early_return
\*    (return. Imp:chain (Imp:while (_. true) (loop. loop:break {})) (return 7))`
BreakThenReturn ==
  EarlyReturn(LamOf("return",
    ImpChain(While(Forever, LamOf("loop", LoopCall("loop", "break"))),
             App(Name("return"), DecInt(7)))))

\* `Imp:while (_. 1) (loop. loop:break {})`
NonBoolCondition == While(LamOf("_", DecInt(1)), LamOf("loop", LoopCall("loop", "break")))

\* `Imp:while (_. false) (loop. 1)`
FalseAtOnce == While(LamOf("_", Name("false")), LamOf("loop", DecInt(1)))

\* `Imp:while (_. true) (loop. nowhere)`
FailingBody == While(Forever, LamOf("loop", Name("nowhere")))

\* `Imp:while (_. nowhere) (loop. 1)`
FailingCondition == While(LamOf("_", Name("nowhere")), LamOf("loop", DecInt(1)))

\* `Imp:while (_. if d then b {} else true)
\*    (loop. Imp:chain (:b .= loop:break) (:d .= true))`
BreakFromCondition ==
  While(LamOf("_", Cond(Name("d"), App(Name("b"), emptyTable), Name("true"))),
        LamOf("loop", ImpChain(Assign("b", App(Name("loop"), AstSymbol("break"))),
                               Assign("d", Name("true")))))

WhilePrograms ==
  <<SetFlags, BreakLoop, BreakAfterStep, ContinueAfterStep, InnerBreak,
    OuterBreakFromInner, BreakThenReturn, ReturnFromLoop, NonBoolCondition, FalseAtOnce,
    FailingBody, FailingCondition, BreakFromCondition>>

NextWhile ==
  \E i \in 1..Len(WhilePrograms) :
    /\ Len(history) < MaxImpRuns
    /\ RunAst(WhilePrograms[i])

SpecWhile == Init /\ [][NextWhile]_vars

(***************************************************************************)
(* Reading the event log                                                   *)
(***************************************************************************)
IsOpen(e) == e.ev \in {"interpret", "apply"}

\* the event that closes the call opened at position i
Match(log, i) ==
  CHOOSE j \in (i + 1)..Len(log) :
    /\ Cardinality({m \in i..j : IsOpen(log[m])}) * 2 = j - i + 1
    /\ \A k \in (i + 1)..(j - 1) :
         Cardinality({m \in i..k : IsOpen(log[m])}) * 2 # k - i + 1

RECURSIVE Children(_, _, _)
\* the positions of the calls made directly by a call whose events span
\* pos - 1 .. end, in order
Children(log, pos, end) ==
  IF pos >= end THEN <<>>
  ELSE <<pos>> \o Children(log, Match(log, pos) + 1, end)

\* a parameter pattern whose entries, if any, all are plain names
IsFlatArg(arg) ==
  \/ arg.tag = "ArgSingle"
  \/ \A k \in 1..Len(arg.table) : arg.table[k][2].tag = "ArgSingle"

ArgEntries(arg) == IF arg.tag = "ArgSingle" THEN <<>> ELSE arg.table

\* the bindings a flat pattern yields when the calls at kids extracted its entries
FlatBindings(log, arg, argument, kids) ==
  IF arg.tag = "ArgSingle" THEN << <<arg.single, argument>> >>
  ELSE [k \in 1..Len(arg.table) |->
          <<arg.table[k][2].single, log[Match(log, kids[k])].r.ok>>]

Min(a, b) == IF a < b THEN a ELSE b

(***************************************************************************)
(* Claims about the session                                                *)
(***************************************************************************)
RECURSIVE LatestAssignedX(_)
\* the number of the last `:x .= n` among the expressions h, 0 when there is none
LatestAssignedX(h) ==
  IF h = <<>> THEN 0
  ELSE IF Last(h) = AssignX1 THEN 1
  ELSE IF Last(h) = AssignX2 THEN 2
  ELSE LatestAssignedX(Front(h))

WasRun(h, expr) == \E i \in 1..Len(h) : h[i] = expr

\* C1: once `:f .= ({}. x)` has run, `f {}` returns the value of the latest
\* `:x .= n` of the session, whether that assignment came before or after
\* the function was created; so after `:x .= 1`, `:f .= ({}. x)`, `:x .= 2`
\* the call returns 2.
C1_CallTimeBinding ==
  (/\ history # <<>>
   /\ Last(history) = CallF
   /\ WasRun(Front(history), AssignF)
   /\ LatestAssignedX(Front(history)) # 0)
  => lastResult = Ok(UnitInt(LatestAssignedX(Front(history))))

C1_Witness ==
  /\ history = <<AssignX1, AssignF, AssignX2, CallF>>
  /\ lastResult = Ok(UnitInt(2))

\* the body of the user function applied at position i of the log ran in a
\* new environment: parent the closure, names exactly the pattern's bindings
BodyRunsInClosure(log, i) ==
  LET fun == log[i].fun
      entries == ArgEntries(fun.fun.arg)
      kids == Children(log, i + 1, Match(log, i))
  IN (\A k \in 1..Min(Len(entries), Len(kids)) : IsOk(log[Match(log, kids[k])].r))
     => /\ Len(kids) = Len(entries) + 1
        /\ log[Last(kids)].ev = "interpret"
        /\ log[Last(kids)].expr = fun.fun.expr
        /\ log[Last(kids)].env =
             ChildEnv(fun.closure,
                      MapFromPairs(FlatBindings(log, fun.fun.arg, log[i].arg, kids)))

\* C2: every applied user function evaluates its body in a new environment
\* whose parent is its closure and whose names are the pattern's bindings;
\* `(y. g {}) 1` with g = `{}. y` created at top level fails with
\* UndefinedName y, the caller's y being invisible to g's body.
C2_LexicalScope ==
  /\ \A i \in 1..Len(lastLog) :
       (/\ lastLog[i].ev = "apply"
        /\ lastLog[i].fun.tag = "Fun"
        /\ IsFlatArg(lastLog[i].fun.fun.arg))
       => BodyRunsInClosure(lastLog, i)
  /\ (/\ history # <<>>
      /\ Last(history) = CallGUnderY
      /\ WasRun(Front(history), AssignG))
     => lastResult = Err(RuntimeError(UndefinedName("y")))

C2_Witness ==
  /\ history = <<AssignG, CallGUnderY>>
  /\ lastResult = Err(RuntimeError(UndefinedName("y")))
  /\ \E i \in 1..Len(lastLog) :
       /\ lastLog[i].ev = "apply"
       /\ lastLog[i].fun = Fun(LamY, RootEnv)
       /\ lastLog[i + 1].ev = "interpret"
       /\ lastLog[i + 1].env = ChildEnv(RootEnv, <<>>)

(***************************************************************************)
(* Claims about one application                                            *)
(***************************************************************************)
\* the outcome of the call opened at position i
ReturnOf(log, i) == log[Match(log, i)].r

\* the evaluation of the application opened at position i went: the function
\* expression, then the argument expression, then the call, stopping at the
\* first of them that fails and returning its outcome
AppStepsInOrder(log, i) ==
  LET expr == log[i].expr
      env == log[i].env
      end == Match(log, i)
      kids == Children(log, i + 1, end)
  IN /\ Len(kids) >= 1
     /\ log[kids[1]] = [ev |-> "interpret", expr |-> expr.fun, env |-> env]
     /\ IF ~IsOk(ReturnOf(log, kids[1]))
          THEN Len(kids) = 1 /\ log[end].r = ReturnOf(log, kids[1])
          ELSE /\ Len(kids) >= 2
               /\ log[kids[2]] = [ev |-> "interpret", expr |-> expr.arg, env |-> env]
               /\ IF ~IsOk(ReturnOf(log, kids[2]))
                    THEN Len(kids) = 2 /\ log[end].r = ReturnOf(log, kids[2])
                    ELSE /\ Len(kids) = 3
                         /\ log[kids[3]] = [ev |-> "apply",
                                            fun |-> ReturnOf(log, kids[1]).ok,
                                            arg |-> ReturnOf(log, kids[2]).ok]
                         /\ log[end].r = ReturnOf(log, kids[3])

\* C3: evaluating App(f, a) evaluates f, then a, then calls apply on the two
\* values; when f fails a is never evaluated, and when a fails apply is
\* never invoked; the failure is what the application returns.
C3_ApplicationOrder ==
  \A i \in 1..Len(lastLog) :
    (lastLog[i].ev = "interpret" /\ lastLog[i].expr.tag = "App")
    => AppStepsInOrder(lastLog, i)

C3_Witness ==
  /\ history = <<App(Name("nope"), AssignZ)>>
  /\ lastResult = Err(RuntimeError(UndefinedName("nope")))
  /\ ~MapHas(rootNames, "z")
  /\ Len(lastLog) = 4

\* the call at position i, of a user function whose parameter is a table
\* pattern of plain names, extracted the entries in order by calling the
\* argument with Symbol(source key), and stopped at the first failure
\* without evaluating the body
ExtractsInOrder(log, i) ==
  LET fun == log[i].fun
      entries == fun.fun.arg.table
      end == Match(log, i)
      kids == Children(log, i + 1, end)
      failed == {k \in 1..Min(Len(entries), Len(kids)) : ~IsOk(ReturnOf(log, kids[k]))}
  IN /\ \A k \in 1..Min(Len(entries), Len(kids)) :
          log[kids[k]] = [ev |-> "apply", fun |-> log[i].arg, arg |-> Symbol(entries[k][1])]
     /\ IF failed = {}
          THEN /\ Len(kids) = Len(entries) + 1
               /\ log[Last(kids)].ev = "interpret"
               /\ log[Last(kids)].expr = fun.fun.expr
          ELSE /\ Len(kids) = CHOOSE k \in failed : \A m \in failed : k <= m
               /\ log[end].r = ReturnOf(log, Last(kids))

\* C4: binding a table pattern extracts each entry in order by
\* apply(v, Symbol(source key)), whatever kind of callee v is, so that
\* `({foo: bar}. bar) (x. x)` is the symbol :foo, and binds the sub-pattern
\* against what it extracted (`({foo: {foo: c}}. c) {foo: {foo: 1}}` is 1);
\* the first extraction that fails aborts the call with its error and the
\* body is never evaluated.
C4_TablePatternExtraction ==
  /\ \A i \in 1..Len(lastLog) :
       (/\ lastLog[i].ev = "apply"
        /\ lastLog[i].fun.tag = "Fun"
        /\ lastLog[i].fun.fun.arg.tag = "ArgTable"
        /\ IsFlatArg(lastLog[i].fun.fun.arg))
       => ExtractsInOrder(lastLog, i)
  /\ history = <<App(LamFooBar, LamId)>> => lastResult = Ok(Symbol("foo"))
  /\ history = <<App(LamNested, TableNested)>> => lastResult = Ok(UnitInt(1))
  /\ history = <<App(LamNested, LamId)>>
       => IsErr(lastResult) /\ lastResult.err.err.tag = "UnexpectedType"
  /\ history = <<App(LamZzzFoo, TableFoo)>>
       => lastResult = Err(RuntimeError(MissingKey("zzz"))) /\ ~MapHas(rootNames, "z")

C4_Witness ==
  /\ history = <<App(LamFooBar, LamId)>>
  /\ lastResult = Ok(Symbol("foo"))
  /\ \E i \in 1..Len(lastLog) :
       lastLog[i] = [ev |-> "apply", fun |-> Fun(LamId, RootEnv), arg |-> Symbol("foo")]

\* the call at position i, of the callable `p |? q` on key k, called p on k
\* and, only when that failed with MissingKey, q on k
FallsBackOnMissingKey(log, i) ==
  LET p == log[i].fun.cap[1]
      q == log[i].fun.cap[2]
      end == Match(log, i)
      kids == Children(log, i + 1, end)
      first == ReturnOf(log, kids[1])
  IN /\ Len(kids) >= 1
     /\ log[kids[1]] = [ev |-> "apply", fun |-> p, arg |-> log[i].arg]
     /\ IF IsErr(first) /\ first.err.tag = "MissingKey"
          THEN /\ Len(kids) = 2
               /\ log[kids[2]] = [ev |-> "apply", fun |-> q, arg |-> log[i].arg]
               /\ log[end].r = ReturnOf(log, kids[2])
          ELSE /\ Len(kids) = 1
               /\ log[end].r = first

\* C5: `p |? q` called with k calls p with k; a MissingKey error, and no
\* other, makes it call q with k and return what q returns; a success or
\* any other error of p is returned as it is and q is not called.
C5_FallbackOnMissingKey ==
  \A i \in 1..Len(lastLog) :
    (/\ lastLog[i].ev = "apply"
     /\ lastLog[i].fun.tag = "Native"
     /\ lastLog[i].fun.native = "fallback")
    => FallsBackOnMissingKey(lastLog, i)

C5_Witness ==
  /\ history = <<App(Fallback(TableZzz, Fallback(emptyTable, TableFoo)), AstSymbol("foo"))>>
  /\ lastResult = Ok(UnitInt(1))
  /\ Cardinality({i \in 1..Len(lastLog) :
                    /\ lastLog[i].ev = "applied"
                    /\ IsErr(lastLog[i].r)
                    /\ lastLog[i].r.err.tag = "MissingKey"}) = 2

(***************************************************************************)
(* Claims about the operators of the prelude                               *)
(***************************************************************************)
\* position i of the log opens the call that hands operator op its second operand
IsBinOpCall(log, i, op) ==
  /\ log[i].ev = "apply"
  /\ log[i].fun.tag = "Native"
  /\ log[i].fun.native = "binOpInner"
  /\ log[i].fun.cap[1] = op

RECURSIVE SameKeysAndWeaklyEqualValues(_, _)
\* two tables have the same set of keys and weakly equal values under every
\* key; values that are not both tables are compared as _weakEquality does
SameKeysAndWeaklyEqualValues(a, b) ==
  IF a.tag = "Table" /\ b.tag = "Table"
    THEN /\ Range(MapKeys(a.table)) = Range(MapKeys(b.table))
         /\ \A k \in Range(MapKeys(a.table)) :
              SameKeysAndWeaklyEqualValues(MapGet(a.table, k), MapGet(b.table, k))
    ELSE _weakEquality(a, b)

\* C6: `a ~= b` on two tables is true exactly when the tables have the same
\* set of keys and the values under every key are weakly equal; so
\* `{x: 1} ~= {x: 1}` is true.
C6_TableWeakEquality ==
  \A i \in 1..Len(lastLog) :
    (/\ IsBinOpCall(lastLog, i, "~=")
     /\ lastLog[i].fun.cap[2].tag = "Table"
     /\ lastLog[i].arg.tag = "Table")
    => ReturnOf(lastLog, i)
         = Ok(Bool(SameKeysAndWeaklyEqualValues(lastLog[i].fun.cap[2], lastLog[i].arg)))

\* `{x: 1} ~= {x: 1}` has run and returned false
C6_Witness ==
  /\ history = <<BinOp("~=", TableX1, TableX1)>>
  /\ lastResult = Ok(Bool(FALSE))

\* the unit y is not a dimensionless integer
NotDimensionlessInteger(y) == ~dimEq(y.dim, neutralDimension) \/ ~RatIsInt(y.value)

\* C7: `x ^ y` on two units returns the error NotInDomain whenever y is not
\* a dimensionless integer: when y carries a dimension, as in
\* `2 ^ meters 5`, and when y is dimensionless but not integral.
C7_PowExponentDomain ==
  \A i \in 1..Len(lastLog) :
    (/\ IsBinOpCall(lastLog, i, "^")
     /\ lastLog[i].fun.cap[2].tag = "Unit"
     /\ lastLog[i].arg.tag = "Unit"
     /\ NotDimensionlessInteger(lastLog[i].arg.unit))
    => /\ IsErr(ReturnOf(lastLog, i))
       /\ ReturnOf(lastLog, i).err.tag = "NotInDomain"

\* `2 ^ meters 5` has run and returned DimensionMismatch
C7_Witness ==
  /\ history = <<BinOp("^", DecInt(2), Meters(5))>>
  /\ lastResult =
       Err(RuntimeError(DimensionMismatch(NewUnit(Big(5), [name \in {"L"} |-> Rat(1, 1)]).dim,
                                          neutralDimension)))

\* C8: `x ^/ n` with n a non-zero dimensionless integer and x negative
\* returns the error NotInDomain when n is even, and computes the root (does
\* not reject it) when n is odd.
C8_RootOfNegative ==
  \A i \in 1..Len(lastLog) :
    (/\ IsBinOpCall(lastLog, i, "^/")
     /\ lastLog[i].fun.cap[2].tag = "Unit"
     /\ lastLog[i].arg.tag = "Unit"
     /\ ~NotDimensionlessInteger(lastLog[i].arg.unit)
     /\ ~RatEq(lastLog[i].arg.unit.value, Big(0))
     /\ RatLt(lastLog[i].fun.cap[2].unit.value, Big(0)))
    => IF RatToInt(lastLog[i].arg.unit.value) % 2 = 0
         THEN /\ IsErr(ReturnOf(lastLog, i))
              /\ ReturnOf(lastLog, i).err.tag = "NotInDomain"
         ELSE IsOk(ReturnOf(lastLog, i))

\* `-8 ^/ 3` has run and was rejected with NotInDomain
C8_Witness ==
  /\ history = <<BinOp("^/", DecInt(-8), DecInt(3))>>
  /\ IsErr(lastResult)
  /\ lastResult.err.err.tag = "NotInDomain"

(***************************************************************************)
(* Claims about the shunting yard                                          *)
(***************************************************************************)
\* `left op right` as a tree
Infix(op, left, right) ==
  IF op.tag = "ExprOp" THEN App(App(op.expr, left), right)
  ELSE App(App(Name(op.name), left), right)

\* shuntingYard has returned for the operator list `x op1 y op2 z`
YardDoneTwo == yardPc = "done" /\ Len(yardOps.chunks) = 2

YardFirstOp == yardOps.chunks[1][1]
YardSecondOp == yardOps.chunks[2][1]

LeftNested ==
  Infix(YardSecondOp,
        Infix(YardFirstOp, yardOps.initial, yardOps.chunks[1][2]),
        yardOps.chunks[2][2])

RightNested ==
  Infix(YardFirstOp,
        yardOps.initial,
        Infix(YardSecondOp, yardOps.chunks[1][2], yardOps.chunks[2][2]))

\* `x op y op z` with the same operator twice, operands of one kind
Chain(op, operands) ==
  MakeOps(operands[1], << <<InfixOp(op), operands[2]>>, <<InfixOp(op), operands[3]>> >>)

\* C9: two adjacent operators of equal strength nest to the left when the
\* later operator's direction is left and to the right when it is right;
\* with `+` at (6, left) `a+b+c` is (a+b)+c, and with `|?` at (6, right)
\* `a|?b|?c` is a|?(b|?c).
C9_EqualStrengthAssociativity ==
  /\ (/\ YardDoneTwo
      /\ getPriority(YardFirstOp, yardOptions).strength
           = getPriority(YardSecondOp, yardOptions).strength)
     => yardResult = IF getPriority(YardSecondOp, yardOptions).direction = "left"
                       THEN LeftNested ELSE RightNested
  /\ (/\ yardPc = "done"
      /\ yardOptions = YardOptions
      /\ yardOps = Chain("+", YardOperands[1]))
     => yardResult = App(App(Name("+"), App(App(Name("+"), Name("a")), Name("b"))), Name("c"))
  /\ (/\ yardPc = "done"
      /\ yardOptions = YardOptions
      /\ yardOps = Chain("|?", YardOperands[1]))
     => yardResult = App(App(Name("|?"), Name("a")), App(App(Name("|?"), Name("b")), Name("c")))

C9_Witness ==
  /\ yardPc = "done"
  /\ yardOptions = YardOptions
  /\ yardOps = Chain("|?", YardOperands[1])
  /\ yardResult = App(App(Name("|?"), Name("a")), App(App(Name("|?"), Name("b")), Name("c")))

\* `1 + 2 * 3` and `a + b * c + d` as operator lists
OnePlusTwoTimesThree ==
  MakeOps(DecInt(1), << <<InfixOp("+"), DecInt(2)>>, <<InfixOp("*"), DecInt(3)>> >>)

APlusBTimesCPlusD ==
  MakeOps(Name("a"), << <<InfixOp("+"), Name("b")>>, <<InfixOp("*"), Name("c")>>,
                        <<InfixOp("+"), Name("d")>> >>)

\* C10: of two neighbouring operators the stronger binds tighter, whichever
\* comes first; with `+` at (6, left) and `*` at (8, left) `1 + 2 * 3` is
\* App(App(+, 1), App(App(*, 2), 3)) and `a + b * c + d` is (a + (b * c)) + d.
C10_StrongerBindsTighter ==
  /\ (/\ YardDoneTwo
      /\ getPriority(YardFirstOp, yardOptions).strength
           > getPriority(YardSecondOp, yardOptions).strength)
     => yardResult = LeftNested
  /\ (/\ YardDoneTwo
      /\ getPriority(YardFirstOp, yardOptions).strength
           < getPriority(YardSecondOp, yardOptions).strength)
     => yardResult = RightNested
  /\ (yardPc = "done" /\ yardOps = OnePlusTwoTimesThree)
     => yardResult = App(App(Name("+"), DecInt(1)),
                         App(App(Name("*"), DecInt(2)), DecInt(3)))
  /\ (yardPc = "done" /\ yardOps = APlusBTimesCPlusD)
     => yardResult = App(App(Name("+"),
                             App(App(Name("+"), Name("a")),
                                 App(App(Name("*"), Name("b")), Name("c")))),
                         Name("d"))

C10_Witness ==
  /\ yardPc = "done"
  /\ yardOptions = YardOptions
  /\ yardOps = APlusBTimesCPlusD
  /\ yardResult = App(App(Name("+"),
                          App(App(Name("+"), Name("a")),
                              App(App(Name("*"), Name("b")), Name("c")))),
                      Name("d"))

(***************************************************************************)
(* Claims about the parser                                                 *)
(***************************************************************************)
RECURSIVE InForceAt(_, _)
\* the options the setter was last called with before entry i of the log, or
\* the options the parser was made with
InForceAt(log, i) ==
  IF i = 1 THEN DEFAULT_PARSER_OPTIONS
  ELSE IF log[i - 1].ev = "setOptions" THEN log[i - 1].options
  ELSE InForceAt(log, i - 1)

APlusBPlusC == InfixStream("a", "+", "b", "+", "c")

Plus(left, right) == App(App(Name("+"), left), right)

\* the operator list a stream of ParserStreams holds
OpsOfStream(stream) ==
  MakeOps(Name(stream[1].content),
          << <<InfixOp(stream[2].content), Name(stream[3].content)>>,
             <<InfixOp(stream[4].content), Name(stream[5].content)>> >>)

\* C11: every parse resolves its operators with the options the setter was
\* last called with before that parse (the options of construction when it
\* never was), and a parse already made keeps the result it had; so the
\* tokens of `a + b + c` parse to (a+b)+c while `+` is (4, left) and to
\* a+(b+c) once `+` was switched to (4, right).
C11_OptionsReadAtEveryParse ==
  \A i \in 1..Len(parserLog) :
    parserLog[i].ev = "parse" =>
      /\ parserLog[i].result =
           Ok(<<shuntingYard(OpsOfStream(parserLog[i].stream), InForceAt(parserLog, i)), <<>>>>)
      /\ (/\ parserLog[i].stream = APlusBPlusC
          /\ getPriority(InfixOp("+"), InForceAt(parserLog, i)) = Prio(4, "left"))
         => parserLog[i].result =
              Ok(<<Plus(Plus(Name("a"), Name("b")), Name("c")), <<>>>>)
      /\ (/\ parserLog[i].stream = APlusBPlusC
          /\ getPriority(InfixOp("+"), InForceAt(parserLog, i)) = Prio(4, "right"))
         => parserLog[i].result =
              Ok(<<Plus(Name("a"), Plus(Name("b"), Name("c"))), <<>>>>)

C11_Witness ==
  /\ Len(parserLog) = 4
  /\ parserLog[1] = [ev |-> "setOptions", options |-> PlusLeft4]
  /\ parserLog[2] = [ev |-> "parse", stream |-> APlusBPlusC,
                     result |-> Ok(<<Plus(Plus(Name("a"), Name("b")), Name("c")), <<>>>>)]
  /\ parserLog[3] = [ev |-> "setOptions", options |-> PlusRight4]
  /\ parserLog[4] = [ev |-> "parse", stream |-> APlusBPlusC,
                     result |-> Ok(<<Plus(Name("a"), Plus(Name("b"), Name("c"))), <<>>>>)]

(***************************************************************************)
(* Claims about makeLambda                                                 *)
(***************************************************************************)
RECURSIVE FreeOccurrences(_, _)
\* the occurrences of names in expr that no enclosing parameter pattern and
\* none of the names bound binds, from left to right
FreeOccurrences(expr, bound) ==
  CASE expr.tag = "Name" -> IF expr.name \in bound THEN <<>> ELSE <<expr.name>>
    [] expr.tag = "App" ->
         FreeOccurrences(expr.fun, bound) \o FreeOccurrences(expr.arg, bound)
    [] expr.tag \in {"Dec", "Str", "Symbol"} -> <<>>
    [] expr.tag = "Table" ->
         IF expr.pairs = <<>> THEN <<>>
         ELSE FreeOccurrences(expr.pairs[1][2], bound)
              \o FreeOccurrences(AstTable(Tail(expr.pairs)), bound)
    [] expr.tag = "Lam" ->
         FreeOccurrences(expr.expr, bound \cup Range(extractNamesFromArg(expr.arg)))
    [] expr.tag = "Cond" ->
         FreeOccurrences(expr.if, bound) \o FreeOccurrences(expr.then, bound)
         \o FreeOccurrences(expr.else, bound)

FirstPlace(s, x) == CHOOSE i \in 1..Len(s) : s[i] = x /\ \A j \in 1..(i - 1) : s[j] # x

\* names lists each element of occurrences once, in the order of their first
\* occurrences
InFirstOccurrenceOrder(names, occurrences) ==
  /\ Range(names) = Range(occurrences)
  /\ \A i, j \in 1..Len(names) :
       i < j => /\ names[i] # names[j]
                /\ FirstPlace(occurrences, names[i]) < FirstPlace(occurrences, names[j])

\* C12: the capturedNames of a lambda built by makeLambda are the names free
\* in its body and not bound by its parameter pattern (the names of a nested
\* lambda being those free in it), each once, in the order of their first
\* occurrences; `x. y` captures [y] and `f. x. f x` captures nothing.
C12_CapturedNames ==
  /\ madeLambda # none =>
       InFirstOccurrenceOrder(
         madeLambda.capturedNames,
         FreeOccurrences(madeLambda.expr, Range(extractNamesFromArg(madeLambda.arg))))
  /\ makeLambda(ArgSingle("x"), Name("y")).capturedNames = <<"y">>
  /\ _makeNestedLambda(<<ArgSingle("f"), ArgSingle("x")>>,
                       App(Name("f"), Name("x"))).capturedNames = <<>>

\* `x. ({k: x, y}. f) y`: a nested lambda that binds y, and a later free y
C12_Witness ==
  /\ madeLambda # none
  /\ madeLambda.arg = ArgSingle("x")
  /\ madeLambda.expr.tag = "App"
  /\ madeLambda.expr.fun.tag = "Lam"
  /\ madeLambda.expr.fun.capturedNames = <<"f">>
  /\ madeLambda.expr.arg = Name("y")
  /\ madeLambda.capturedNames = <<"f", "y">>

(***************************************************************************)
(* Claims about the lexer                                                  *)
(***************************************************************************)
RECURSIVE ConcatContents(_)
\* the texts of the tokens, one after the other
ConcatContents(tokens) ==
  IF tokens = <<>> THEN "" ELSE tokens[1].content \o ConcatContents(Tail(tokens))

RECURSIVE IsBlank(_)
\* s is whitespace and comments only, a comment running from # to the end of
\* its line
IsBlank(s) ==
  IF s = "" THEN TRUE
  ELSE IF charAt(s, 1) \in whitespace THEN IsBlank(slice(s, 1))
  ELSE IF charAt(s, 1) = "#"
    THEN (IF indexOf(s, "\n") = 0 THEN TRUE ELSE IsBlank(slice(s, indexOf(s, "\n"))))
  ELSE FALSE

\* where token i of tokens ends in the source; 0 for i = 0
EndOf(tokens, i) == IF i = 0 THEN 0 ELSE tokens[i].position + Len(tokens[i].content)

\* where the token after token i begins; the end of the source after the last
StartAfter(tokens, i, src) == IF i = Len(tokens) THEN Len(src) ELSE tokens[i + 1].position

\* C13: when lex succeeds, every token's text is the source's text at the
\* token's position and the tokens follow each other in source order; with
\* whitespace tokens included each token begins where the one before it ends
\* (the first at 0) and the texts, concatenated, are the source; with
\* whitespace dropped no token is whitespace and what lies before, between
\* and after the tokens is whitespace and comments only.
C13_LexRoundTrip ==
  IsOk(lexed) =>
    /\ \A i \in 1..Len(lexed.ok) :
         /\ lexed.ok[i].content # ""
         /\ EndOf(lexed.ok, i) <= Len(code)
         /\ lexed.ok[i].content = SubSeq(code, lexed.ok[i].position + 1, EndOf(lexed.ok, i))
    /\ \A i \in 0..Len(lexed.ok) : EndOf(lexed.ok, i) <= StartAfter(lexed.ok, i, code)
    /\ includeWs =>
         /\ \A i \in 0..Len(lexed.ok) : EndOf(lexed.ok, i) = StartAfter(lexed.ok, i, code)
         /\ ConcatContents(lexed.ok) = code
    /\ ~includeWs =>
         /\ \A i \in 1..Len(lexed.ok) : lexed.ok[i].type # "ws"
         /\ \A i \in 0..Len(lexed.ok) :
              IsBlank(SubSeq(code, EndOf(lexed.ok, i) + 1, StartAfter(lexed.ok, i, code)))
         /\ lexed.ok = SelectSeq(lex(code, TRUE).ok, LAMBDA t : t.type # "ws")

C13_Witness ==
  /\ code = "a #"
  /\ includeWs
  /\ lexed = Ok(<<Token("name", 0, "a"), Token("ws", 1, " "), Token("ws", 2, "#")>>)
  /\ lex(code, FALSE) = Ok(<<Token("name", 0, "a")>>)

\* a name: [a-zA-Z_][a-zA-Z_0-9]*[?!]*
HasNameShape(s) ==
  /\ charAt(s, 1) \in letters \cup {"_"}
  /\ \A i \in 1..(Len(s) - 1) :
       charAt(s, i) \in {"?", "!"} => charAt(s, i + 1) \in {"?", "!"}
  /\ \A i \in 1..Len(s) : charAt(s, i) \in nameChars

\* C14: every name token is a letter or underscore, then letters, digits and
\* underscores, then possibly a run of `?` and `!` that ends the name: no `?`
\* or `!` of a name token is followed by a letter, a digit or an underscore,
\* and no name token starts with a digit, `?` or `!`.
C14_NameShape ==
  IsOk(lexed) =>
    \A i \in 1..Len(lexed.ok) :
      lexed.ok[i].type = "name" => HasNameShape(lexed.ok[i].content)

\* `a?a` is one name token
C14_Witness ==
  /\ code = "a?a"
  /\ lexed = Ok(<<Token("name", 0, "a?a")>>)

\* C20: highlightCode(code, identityColorHandle) returns [true, code] for
\* every code that lex accepts, numbers included, and [false, message] for a
\* code that lex does not accept; it never throws.
C20_HighlightIdentity ==
  highlighted # none =>
    IF IsOk(lex(code, TRUE))
      THEN highlighted = Ok(<<TRUE, code>>)
      ELSE highlighted = Ok(<<FALSE, lex(code, TRUE).err>>)

\* the one-token code `1`: a TypeError leaves highlightCode
C20_Witness ==
  /\ code = "1"
  /\ lex(code, TRUE) = Ok(<<Token("dec", 0, "1")>>)
  /\ highlighted = Throw("TypeError: h[col] is not a function")

(***************************************************************************)
(* Claims about the combinators                                            *)
(***************************************************************************)
IsUnrecoverable(ea) == IsErr(ea) /\ ~ea.err.recoverable

IsRecoverable(ea) == IsErr(ea) /\ ea.err.recoverable

\* the parse of a part of combParser
PartParse(p, src) == Parse(p, src, DEFAULT_PARSER_OPTIONS)

RECURSIVE ManyKeepsError(_, _, _)
\* when single, run again and again from src on, meets an unrecoverable
\* error, r is that error
ManyKeepsError(single, src, r) ==
  IF IsUnrecoverable(PartParse(single, src)) THEN r = PartParse(single, src)
  ELSE IF IsOk(PartParse(single, src))
    THEN ManyKeepsError(single, PartParse(single, src).ok[2], r)
  ELSE TRUE

\* C17: p.or(q) returns p's success when p succeeds, p's error when p fails
\* unrecoverably, and q's outcome on the same input when p fails
\* recoverably; and an unrecoverable error of the parser under map,
\* lookAhead, flatMap (of either of its two parsers), many or orBail is the
\* outcome of the whole parse, its message being that of the
\* failUnrecoverable or orBail that raised it.
C17_UnrecoverableNeverSwallowed ==
  combResult # none =>
    /\ combParser.p = "or" =>
         /\ ~IsRecoverable(PartParse(combParser.self, combSrc))
              => combResult = PartParse(combParser.self, combSrc)
         /\ IsRecoverable(PartParse(combParser.self, combSrc))
              => combResult = PartParse(combParser.other, combSrc)
    /\ combParser.p \in {"map", "lookAhead", "flatMap"} =>
         (IsUnrecoverable(PartParse(combParser.self, combSrc))
            => combResult = PartParse(combParser.self, combSrc))
    /\ (combParser.p = "flatMap" /\ IsOk(PartParse(combParser.self, combSrc))) =>
         (IsUnrecoverable(PartParse(combParser.f.other,
                                    PartParse(combParser.self, combSrc).ok[2]))
            => combResult = PartParse(combParser.f.other,
                                      PartParse(combParser.self, combSrc).ok[2]))
    /\ combParser.p = "many" => ManyKeepsError(combParser.single, combSrc, combResult)
    /\ IsUnrecoverable(combResult) => combResult.err.msg \in {"u", "w", "b"}

\* `name.then(failUnrecoverable('u')).or(always('v'))` on one name: the error
\* of the first parser, not the success of the second
C17_Witness ==
  /\ combParser = or(then(oneOf(<<"name">>), failUnrecoverable("u")), always("v"))
  /\ combSrc = <<tok("name", 0, "a")>>
  /\ combResult = Err(ParseError(FALSE, "u"))

(***************************************************************************)
(* Claims about unparse                                                    *)
(***************************************************************************)
\* C15: for every expression without operators, the tokens of unparse's text
\* parse to that very expression with nothing left over, also when a
\* conditional is the function or an argument other than the last of an
\* application.
C15_ParseUnparse ==
  reparsed # none => reparsed = Ok(<<ast, <<>>>>)

\* `(if a then a else b b)`: the application of a conditional comes back as a
\* conditional whose else branch is an application
C15_Witness ==
  /\ ast = App(Cond(Name("a"), Name("a"), Name("b")), Name("b"))
  /\ unparsed = "(if a then a else b b)"
  /\ reparsed = Ok(<<Cond(Name("a"), Name("a"), App(Name("b"), Name("b"))), <<>>>>)

(***************************************************************************)
(* Claims about runLine                                                    *)
(***************************************************************************)
\* lex returns tokens for line, the parser returns an expression for them,
\* and tokens remain after that expression
LeavesTokens(line, opts) ==
  LET left(parsedE) == IsOk(parsedE) /\ Len(parsedE.ok[2]) > 0
      lexedTo(tokens) == IsOk(tokens) /\ left(Parse(exprParser_, tokens.ok, opts))
  IN lexedTo(lex(line, FALSE))

\* C16: a runLine call whose line leaves tokens after its one expression
\* returns a parse error and evaluates nothing: runAst is not called, there is
\* no interpret or applyFunction event (so no native, the only code that
\* reaches the IOHandle, has run), and the environment is as it was.
C16_LeftoverIsParseError ==
  [][(lines' # lines /\ LeavesTokens(Last(lines'), closureOptions))
       => /\ IsErr(lastResult')
          /\ lastResult'.err.type = "parseError"
          /\ history' = history
          /\ lastLog' = <<>>
          /\ rootNames' = rootNames]_vars

\* `:x .= 2 )` after `:x .= 1`: the assignment before the stray parenthesis
\* was not run, x is still bound by the first line alone
C16_Witness ==
  /\ lines = <<":x .= 1", ":x .= 2 )">>
  /\ LeavesTokens(":x .= 2 )", closureOptions)
  /\ IsErr(lastResult)
  /\ lastResult.err.type = "parseError"
  /\ Len(history) = 1
  /\ \E i \in 1..Len(rootNames) : rootNames[i][1] = "x"

(***************************************************************************)
(* Claims about Imp:early_return and Imp:while                             *)
(***************************************************************************)
\* C18: every runAst ends by returning Ok(value) or Err of a runtimeError; no
\* exception leaves it, also when a `return`, `break` or `continue` function
\* is called after the Imp:early_return or Imp:while call that made it has
\* finished.
C18_NoExceptionEscapes ==
  \/ lastResult = none
  \/ IsOk(lastResult)
  \/ IsErr(lastResult) /\ lastResult.err.type = "runtimeError"

\* `(Imp:early_return (return. return)) 1`: the early_return call has
\* returned its own `return` function, and the call of that function throws
\* the sentinel with no catch left around it
C18_Witness ==
  /\ history = <<StaleReturn>>
  /\ isSentinel(lastResult, 0)
  /\ lastResult.throw = "~return~ outside of Imp:early_return"
  /\ sentinels = 1

\* the Imp:early_return call opened at position i of the log
IsEarlyReturnCall(log, i) ==
  log[i].ev = "apply" /\ log[i].fun = Native("Imp:early_return", <<>>)

\* the `return` function that call made: the argument its f is applied to
ReturnFnOf(log, i) == log[i + 1].arg

\* the positions within that call where its `return` function is called
ReturnCalls(log, i) ==
  {k \in (i + 2)..(Match(log, i) - 1) :
     log[k].ev = "apply" /\ log[k].fun = ReturnFnOf(log, i)}

\* the least of a non-empty set of positions
First(positions) == CHOOSE k \in positions : \A m \in positions : k <= m

\* the calls that were in progress within the call at i when position k came
Enclosing(log, i, k) ==
  {j \in (i + 1)..(k - 1) : IsOpen(log[j]) /\ Match(log, j) > k}

\* the Imp:early_return call at i did what its `return` function asks for
EarlyReturnDone(log, i) ==
  LET returnedAt(k, end) ==
        /\ log[end].r = Ok(log[k].arg)
        /\ \A m \in (k + 1)..(end - 1) : ~IsOpen(log[m])
        /\ \A j \in Enclosing(log, i, k) : ~IsOk(log[Match(log, j)].r)
      within(calls, end) ==
        IF calls = {} THEN log[end].r = log[Match(log, i + 1)].r
        ELSE returnedAt(First(calls), end)
  IN /\ log[i + 1].ev = "apply"
     /\ log[i + 1].fun = log[i].arg
     /\ ReturnFnOf(log, i).native = "return"
     /\ within(ReturnCalls(log, i), Match(log, i))

\* C19: Imp:early_return f applies f to a new `return` function.  When that
\* function is called with v anywhere within the application, also inside a
\* nested Imp:early_return or Imp:while, the calls in progress inside are
\* left without a value, nothing more is evaluated, and this very
\* Imp:early_return call returns Ok(v); a `return` of another call never ends
\* it; when its `return` is not called it returns what f returned.
C19_EarlyReturn ==
  \A i \in 1..Len(lastLog) :
    IsEarlyReturnCall(lastLog, i) => EarlyReturnDone(lastLog, i)

\* `Imp:early_return (outer. (Imp:early_return (inner. outer 1)) + 10)`: the
\* inner call is left by the outer `return`, the sum is never made, the outer
\* call returns 1
C19_Witness ==
  /\ history # <<>>
  /\ Last(history) = OuterFromInner
  /\ lastResult = Ok(UnitInt(1))
  /\ \E i \in 1..Len(lastLog) :
       /\ IsEarlyReturnCall(lastLog, i)
       /\ ReturnCalls(lastLog, i) # {}
       /\ Enclosing(lastLog, i, First(ReturnCalls(lastLog, i))) # {}

(***************************************************************************)
(* Claims about the stacks of the shunting yard                            *)
(***************************************************************************)
\* the operands and operators of the items the for loop has been through
OperandsRead == Cardinality({i \in 1..(yardPos - 1) : "app" \in DOMAIN opsToStream(yardOps)[i]})

OperatorsRead == Cardinality({i \in 1..(yardPos - 1) : "op" \in DOMAIN opsToStream(yardOps)[i]})

\* C21: for every operator list (an initial operand and n >= 0 pairs of an
\* operator and an operand) and every ParseOptions, shuntingYard never pops
\* from an empty stack (never() is not reached): at every step of the run the
\* operand stack holds one operand more than the operator stack once the operand
\* after the last operator read has been pushed, and as many before that; when
\* the run finishes the operator stack is empty and exactly one operand is on
\* the operand stack, which is the expression returned.
C21_StacksNeverUnderflow ==
  /\ yardPc # "never"
  /\ yardPc = "run" =>
       /\ OperandsRead \in {OperatorsRead, OperatorsRead + 1}
       /\ Len(exprStack) = Len(opStack) + 1 - (OperatorsRead + 1 - OperandsRead)
       /\ yardPos > Len(opsToStream(yardOps)) => OperandsRead = OperatorsRead + 1
  /\ yardPc = "done" =>
       /\ opStack = <<>>
       /\ Len(exprStack) = 1
       /\ yardResult = exprStack[1]

\* a run over MaxChunks operators has finished and returned an application
C21_Witness ==
  /\ yardPc = "done"
  /\ Len(yardOps.chunks) = MaxChunks
  /\ opStack = <<>>
  /\ Len(exprStack) = 1
  /\ yardResult.tag = "App"

(***************************************************************************)
(* Claims about operator sections                                          *)
(***************************************************************************)
\* a name no line uses
FreshName == "x0"

\* expr with every left operator section `(op e)` written as the function
\* `x0. x0 op e`
RECURSIVE WithFreshBinder(_)

WithFreshBinder(expr) ==
  CASE expr.tag = "App" -> App(WithFreshBinder(expr.fun), WithFreshBinder(expr.arg))
    [] expr.tag = "Lam" ->
         IF isLeftOperatorSection(expr)
           THEN makeLambda(ArgSingle(FreshName),
                           App(App(expr.expr.fun.fun, Name(FreshName)),
                               WithFreshBinder(expr.expr.arg)))
           ELSE makeLambda(expr.arg, WithFreshBinder(expr.expr))
    [] OTHER -> expr

\* the expression a line parses to
ExprOfLine(line) == parseText(line).ok[1]

HasSection(expr) == WithFreshBinder(expr) # expr

\* C22: a left operator section `(op e)` denotes the function that maps v to
\* `v op e`, with e evaluated in the environment enclosing the section: a line
\* run with its sections gives the same result as the line with every section
\* `(op e)` replaced by `x. x op e` for a fresh name x, whatever e mentions,
\* the name `_` included.
C22_SectionIsFreshLambda ==
  [][(lines' # lines /\ HasSection(ExprOfLine(Last(lines'))))
       => lastResult' = runAst(WithFreshBinder(ExprOfLine(Last(lines'))),
                               Store).r]_vars

\* `(+ _) 1` after `:_ .= 5`: the section's own parameter hides the `_` of the
\* root environment, the result is 1 + 1 where `x. x + _` gives 1 + 5
C22_Witness ==
  /\ lines = <<":_ .= 5", "(+ _) 1">>
  /\ lastResult = Ok(UnitInt(2))
  /\ runAst(WithFreshBinder(ExprOfLine("(+ _) 1")),
            Store).r = Ok(UnitInt(6))


(***************************************************************************)
(* C23: between two calls of the session no load is in progress, so no     *)
(* entry of the module cache is the circular-import sentinel: a load that  *)
(* ended left the module's value or no entry.                              *)
(***************************************************************************)
C23_NoSentinelOnceLoadEnded ==
  \A i \in 1..Len(moduleCache) : moduleCache[i][2] # CircularImport

\* the file ./self requires itself: its load ended with Ok and the entry of
\* its name is the sentinel, which the next require of the name returns
C23_Witness ==
  /\ FilesParsedFromSource
  /\ Len(history) = 2
  /\ history[1] = Require("./self")
  /\ history[2] = Require("./self")
  /\ MapHas(moduleCache, "./self")
  /\ MapGet(moduleCache, "./self") = CircularImport
  /\ lastResult = Ok(CircularImport)


(***************************************************************************)
(* C30: a require of a relative module name from the session's location   *)
(* returns the value of the file found relative to that location, which is *)
(* what resolveModule returns for the name when nothing is cached.         *)
(***************************************************************************)
IsRelative(moduleName) == startsWith(moduleName, "./") \/ startsWith(moduleName, "../")

\* the value of the file that moduleName names from location, or null
ValueOfFileAt(location, moduleName) ==
  resolveModule(location, moduleName, [Store EXCEPT !.cache = <<>>]).r

C30_RelativeRequireReadsFromLocation ==
  [][\A i \in 1..Len(ModuleNames) :
       (/\ history' = Append(history, Require(ModuleNames[i]))
        /\ IsRelative(ModuleNames[i])
        /\ IsOk(ValueOfFileAt(Cwd, ModuleNames[i])))
       => lastResult' = ValueOfFileAt(Cwd, ModuleNames[i])]_vars

\* ./sub/index required ./m from /w/sub; then ./m is required from /w, where
\* the file /w/m evaluates to :w_m, and the value of /w/sub/m is returned
C30_Witness ==
  /\ FilesParsedFromSource
  /\ history = <<Require("./sub/index"), Require("./m")>>
  /\ MapGet(Files, pathResolve(Cwd, "./m")) = ":w_m"
  /\ MapGet(Files, pathResolve(<<"w", "sub">>, "./m")) = ":sub_m"
  /\ lastResult = Ok(Symbol("sub_m"))


(***************************************************************************)
(* C29: a line `IO:define :n e` whose value expression fails leaves the    *)
(* binding of n as it was before the line: the binding changes only when   *)
(* the value is supplied.                                                  *)
(***************************************************************************)
C29_FailedDefineKeepsBinding ==
  [][(/\ lines' = Append(lines, "IO:define :n nowhere")
      /\ IsErr(lastResult'))
     => MapGet(rootNames', "n") = MapGet(rootNames, "n")]_vars

\* while the value expression of `IO:define :n (n + 1)` is evaluated, the
\* previous binding of n is in place, so after `:n .= 1` the line binds n to 2
C29_DefineReadsPreviousBinding ==
  [][(/\ lines' = Append(lines, "IO:define :n (n + 1)")
      /\ MapGet(rootNames, "n") = UnitInt(1))
     => /\ lastResult' = Ok(UnitInt(2))
        /\ MapGet(rootNames', "n") = UnitInt(2)]_vars

\* n was bound to 1; `IO:define :n (n + 1)` found n undefined and left it
\* unbound
C29_Witness ==
  /\ lines = <<":n .= 1", "IO:define :n (n + 1)">>
  /\ lastResult = Err(RuntimeError(UndefinedName("n")))
  /\ ~MapHas(rootNames, "n")


(***************************************************************************)
(* C24: the bindings of the root environment after an evaluation are those *)
(* before it, changed by the calls of `.=`, IO:define, IO:forget and       *)
(* IO:unpack that this interpreter made, in the order of the calls and at  *)
(* whatever depth they were made; a name bound by the environment of a     *)
(* function call reads as the value bound there, before and after them.    *)
(***************************************************************************)
\* the names after the call that the event e opens, names before it
NamesAfterCall(e, names) ==
  IF e.ev # "apply" \/ e.fun.tag # "Native" THEN names
  ELSE CASE e.fun.native = "binOpInner" /\ e.fun.cap[1] = ".=" ->
              IF IsOk(asSymb(e.fun.cap[2])) THEN MapSet(names, e.fun.cap[2].symbol, e.arg)
              ELSE names
         [] e.fun.native \in {"IO:define", "IO:forget"} ->
              IF IsOk(asStrOrSymb(e.arg)) THEN MapDelete(names, asStrOrSymb(e.arg).ok)
              ELSE names
         [] e.fun.native = "IO:define value" -> MapSet(names, e.fun.cap[1], e.arg)
         [] e.fun.native = "IO:unpack" ->
              IF IsOk(asTable(e.arg)) THEN setNames(e.arg.table, [names |-> names]).names
              ELSE names
         [] OTHER -> names

\* the event e opens a call that sets or deletes names
IsMutator(e) ==
  /\ e.ev = "apply"
  /\ e.fun.tag = "Native"
  /\ CASE e.fun.native = "binOpInner" -> e.fun.cap[1] = ".=" /\ IsOk(asSymb(e.fun.cap[2]))
       [] e.fun.native \in {"IO:define", "IO:forget"} -> IsOk(asStrOrSymb(e.arg))
       [] e.fun.native = "IO:define value" -> TRUE
       [] e.fun.native = "IO:unpack" -> IsOk(asTable(e.arg))
       [] OTHER -> FALSE

\* the positions of the events of log that open such a call
Mutators(log) == {i \in 1..Len(log) : IsMutator(log[i])}

RECURSIVE NamesAfterFrom(_, _, _)
\* names after the calls of log from position from on
NamesAfterFrom(log, from, names) ==
  LET rest == {i \in Mutators(log) : i >= from}
      next == CHOOSE i \in rest : \A j \in rest : i <= j
  IN IF rest = {} THEN names
     ELSE NamesAfterFrom(log, next + 1, NamesAfterCall(log[next], names))

RECURSIVE LocalBinding(_, _)
\* the value of name in the environments of the function calls around env
LocalBinding(name, env) ==
  IF IsRootEnv(env) THEN undefined
  ELSE IF MapHas(env.names, name) THEN MapGet(env.names, name)
  ELSE LocalBinding(name, env.parent)

\* every name that a function call binds evaluates to the value bound there
LocalsReadAsBound(log) ==
  \A i \in 1..Len(log) :
    (/\ log[i].ev = "interpret"
     /\ log[i].expr.tag = "Name"
     /\ LocalBinding(log[i].expr.name, log[i].env) # undefined)
    => log[Match(log, i)].r = Ok(LocalBinding(log[i].expr.name, log[i].env))

C24_OnlyMutatorsChangeRoot ==
  [][/\ rootNames' = NamesAfterFrom(lastLog', 1, rootNames)
     /\ LocalsReadAsBound(lastLog')]_vars

\* `.=` ran in a call whose parameter is n: the root n is 9, the n of the call
\* stayed 3 (the sum is 12); before it a module bound y in its own root
C24_Witness ==
  /\ lines = <<"IO:require 'util'", "(n. (:n .= 9) + n) 3">>
  /\ lastResult = Ok(UnitInt(12))
  /\ MapGet(rootNames, "n") = UnitInt(9)
  /\ ~MapHas(rootNames, "y")
  /\ written = <<"util">>
  /\ Mutators(lastLog) # {}


(***************************************************************************)
(* Imp:while in the event log: the direct calls of a call of the function  *)
(* that `Imp:while condition` returns are condition, body, condition, ...  *)
(***************************************************************************)
IsWhileCall(log, i) ==
  log[i].ev = "apply" /\ log[i].fun.tag = "Native" /\ log[i].fun.native = "whileInner"

\* the value of the loop's `result` variable when the direct call number k
\* of the calls at kids starts
WhileResult(log, kids, k) ==
  LET completed == {j \in 1..(k - 1) : j % 2 = 0 /\ IsOk(ReturnOf(log, kids[j]))}
  IN IF completed = {} THEN unitValue
     ELSE ReturnOf(log, kids[CHOOSE j \in completed : \A m \in completed : m <= j]).ok

\* the loop at i, whose sentinels are s and s + 1, went on after its direct
\* call number k
WhileWentOn(log, kids, k, s) ==
  IF k % 2 = 1 THEN ReturnOf(log, kids[k]) = Ok(Bool(TRUE))
  ELSE IsOk(ReturnOf(log, kids[k])) \/ isSentinel(ReturnOf(log, kids[k]), s + 1)

\* the loop at i, whose sentinels are s and s + 1, ended as it has to after
\* its last direct call, which returned r
WhileEnded(log, i, kids, s, r) ==
  IF Len(kids) % 2 = 1
    THEN IF ~IsOk(r) THEN ReturnOf(log, i) = r
         ELSE IF r.ok.tag # "Bool"
           THEN ReturnOf(log, i) = Err(UnexpectedType("boolean", r.ok))
         ELSE /\ ~r.ok.bool
              /\ ReturnOf(log, i) = Ok(WhileResult(log, kids, Len(kids)))
  ELSE IF isSentinel(r, s) THEN ReturnOf(log, i) = Ok(WhileResult(log, kids, Len(kids)))
  ELSE /\ ~IsOk(r)
       /\ ~isSentinel(r, s + 1)
       /\ ReturnOf(log, i) = r

WhileDone(log, i, s) ==
  LET kids == Children(log, i + 1, Match(log, i))
  IN /\ Len(kids) >= 1
     /\ \A k \in 1..Len(kids) :
          log[kids[k]] =
            IF k % 2 = 1
              THEN [ev |-> "apply", fun |-> log[i].fun.cap[1], arg |-> unitValue]
              ELSE [ev |-> "apply", fun |-> log[i].arg, arg |-> whileBodyArg(s, s + 1)]
     /\ \A k \in 1..(Len(kids) - 1) : WhileWentOn(log, kids, k, s)
     /\ WhileEnded(log, i, kids, s, ReturnOf(log, kids[Len(kids)]))

\* every loop of the log went as the code of Imp:while prescribes: a body
\* step that called this loop's break is its last call and the loop returns
\* Ok of the value of the last step that returned; a step that called its
\* continue is followed by the condition; what another call threw, and what
\* the condition threw, passes through; a condition that is not a Bool ends
\* the loop with UnexpectedType "boolean"
WhileLoopsDone ==
  \A i \in 1..Len(lastLog) :
    IsWhileCall(lastLog, i) => \E s \in 0..sentinels : WhileDone(lastLog, i, s)

\* the break function of the loop at i, once it has called its body
BreakFnOf(log, i) == MapGet(log[Children(log, i + 1, Match(log, i))[2]].arg.table, "break")

\* C25: a call of the break function of a loop that is in progress makes that
\* loop return Ok with the value of its last completed body step (the empty
\* table if none), and nothing of the loop is evaluated after the call.
C25_BreakEndsItsLoop ==
  \A i \in 1..Len(lastLog) :
    IsWhileCall(lastLog, i) =>
      LET kids == Children(lastLog, i + 1, Match(lastLog, i))
      IN \A k \in (i + 1)..(Match(lastLog, i) - 1) :
           (/\ Len(kids) >= 2
            /\ lastLog[k].ev = "apply"
            /\ lastLog[k].fun = BreakFnOf(lastLog, i))
           => /\ ReturnOf(lastLog, i) = Ok(WhileResult(lastLog, kids, Len(kids)))
              /\ \A m \in (k + 1)..(Match(lastLog, i) - 1) : ~IsOpen(lastLog[m])

\* the first body step kept the loop's break function in b; the condition
\* called it while the loop was in progress, and the Error left runAst
C25_Witness ==
  /\ history = <<SetFlags, BreakFromCondition>>
  /\ IsThrow(lastResult)
  /\ lastResult.throw = "~break~ outside of a loop"
  /\ WhileLoopsDone
  /\ \E i \in 1..Len(lastLog) :
       /\ IsWhileCall(lastLog, i)
       /\ Len(Children(lastLog, i + 1, Match(lastLog, i))) = 3
       /\ \E k \in (i + 1)..(Match(lastLog, i) - 1) :
            lastLog[k].ev = "apply" /\ lastLog[k].fun = BreakFnOf(lastLog, i)


(***************************************************************************)
(* C27: runMultiline lexes and parses the whole source first.  When that   *)
(* fails nothing is evaluated: the error is returned and neither the root  *)
(* environment nor the output changed.  Otherwise the expressions are      *)
(* evaluated in source order up to the first that fails: the expressions   *)
(* handed to runAst are the first n of the source, the first n - 1 of them *)
(* returned Ok, none after the n-th is evaluated, the names bound and the  *)
(* lines written by the n evaluations are in place, and the call returns   *)
(* the error of the n-th or, when all returned, the list of their values.  *)
(***************************************************************************)
\* the strings that the IO:log calls of log wrote, in order
Logged(log) ==
  LET calls == SelectSeq(log, LAMBDA e : /\ e.ev = "apply"
                                         /\ e.fun = Native("IO:log", <<>>)
                                         /\ IsOk(asStr(e.arg)))
  IN [k \in 1..Len(calls) |-> calls[k].arg.str]

\* what runMultiline has to have done with the source that parsedSource made
\* parsedE of: result and log are what it returned and the events of its
\* evaluations, ran the expressions it handed to runAst
MultilineDone(parsedE, namesBefore, writtenBefore, ran, result, log, namesAfter, writtenAfter) ==
  LET top == Children(log, 1, Len(log) + 1)
      n == Len(top)
      last == ReturnOf(log, top[n])
  IN IF ~IsOk(parsedE)
       THEN /\ result = parsedE
            /\ ran = <<>>
            /\ log = <<>>
            /\ namesAfter = namesBefore
            /\ writtenAfter = writtenBefore
     ELSE /\ n <= Len(parsedE.ok)
          /\ ran = SubSeq(parsedE.ok, 1, n)
          /\ \A k \in 1..n :
               log[top[k]] = [ev |-> "interpret", expr |-> parsedE.ok[k], env |-> RootEnv]
          /\ \A k \in 1..(n - 1) : IsOk(ReturnOf(log, top[k]))
          /\ IF n = 0 THEN parsedE.ok = <<>> /\ result = Ok(<<>>)
             ELSE IF IsOk(last)
               THEN /\ n = Len(parsedE.ok)
                    /\ result = Ok([k \in 1..n |-> ReturnOf(log, top[k]).ok])
             ELSE result = (IF IsErr(last) THEN Err(RuntimeError(last.err)) ELSE last)
          /\ namesAfter = NamesAfterFrom(log, 1, namesBefore)
          /\ writtenAfter = writtenBefore \o Logged(log)

C27_RunMultilineInOrder ==
  [][\A source \in MultilineSources :
       lines' = Append(lines, source)
       => MultilineDone(parsedSource(source, closureOptions), rootNames, written,
                        SubSeq(history', Len(history) + 1, Len(history')),
                        lastResult', lastLog', rootNames', written')]_vars

\* the second of three expressions failed: the first bound a, the third wrote
\* nothing; and the source before it stopped at its end without evaluating
C27_Witness ==
  /\ lines = <<"IO:log 'p'; :a .= 3; (1", ":a .= 2; nowhere; IO:log 'y'">>
  /\ lastResult = Err(RuntimeError(UndefinedName("nowhere")))
  /\ history = <<Assign("a", DecInt(2)), Name("nowhere")>>
  /\ MapGet(rootNames, "a") = UnitInt(2)
  /\ written = <<>>

(***************************************************************************)
(* StatefulParser.parseMultiline, one turn of its while loop at a time     *)
(***************************************************************************)
\* the longest token stream parseMultiline is called with
MaxTokens == 3

\* the tokens the streams are made of: type and content
TokenKinds ==
  << <<"name", "a">>, <<"dec", "1">>, <<"semicolon", ";">>, <<"op", "+">>,
     <<"lp", "(">>, <<"rp", ")">>, <<"dot", ".">> >>

\* the streams of n tokens: what lex returns on the contents joined by one
\* space each, so the token at index i is at position 2 * (i - 1)
RECURSIVE TokenStreams(_)
TokenStreams(n) ==
  IF n = 0 THEN {<<>>}
  ELSE {Append(stream, Token(TokenKinds[k][1], 2 * (n - 1), TokenKinds[k][2])) :
          stream \in TokenStreams(n - 1), k \in 1..Len(TokenKinds)}

\* the text a stream is the tokens of
RECURSIVE textOf(_)
textOf(stream) ==
  IF stream = <<>> THEN ""
  ELSE IF Len(stream) = 1 THEN stream[1].content
  ELSE stream[1].content \o " " \o textOf(Tail(stream))

\* what is left of a stream after some of its first tokens, one at least
Rests(stream) == {SubSeq(stream, i, Len(stream)) : i \in 1..Len(stream)}

\* the call parseMultiline(stream): expressions is empty and the loop is
\* about to test its condition.  this.parse is a function of the stream alone
\* while the call runs (nothing calls setPrio), and what it returns on the
\* rests of the stream is kept from the start
InitParseMultiline ==
  /\ InterpreterMade
  /\ YardIdle
  /\ ParserMade
  /\ madeLambda = none
  /\ code = ""
  /\ includeWs = FALSE
  /\ NothingLexed
  /\ NoCombParser
  /\ NothingUnparsed
  /\ NoRepl
  /\ multiInput \in UNION {TokenStreams(n) : n \in 0..MaxTokens}
  /\ multiParsed = [stream \in Rests(multiInput) |-> Parse(exprParser_, stream, closureOptions)]
  /\ multiStream = multiInput
  /\ multiExpressions = <<>>
  /\ multiResult = none

\* the test of the while condition and, the stream not being empty, the body:
\* the loop ends with Ok(expressions) or with the parser's error, or goes on
\* with the rest of the stream and one more expression
ParseMultilineTurn ==
  LET turned(t) ==
        IF t.done
          THEN /\ multiResult' = t.r
               /\ UNCHANGED <<multiStream, multiExpressions>>
          ELSE /\ multiStream' = t.stream
               /\ multiExpressions' = t.expressions
               /\ UNCHANGED multiResult
  IN /\ multiResult = none
     /\ IF Len(multiStream) = 0
          THEN /\ multiResult' = Ok(multiExpressions)
               /\ UNCHANGED <<multiStream, multiExpressions>>
          ELSE turned(parseMultilineTurn(
                        IF multiStream \in DOMAIN multiParsed THEN multiParsed[multiStream]
                        ELSE Parse(exprParser_, multiStream, closureOptions),
                        multiStream, multiExpressions))
     /\ UNCHANGED <<multiInput, multiParsed, exceptMultiline>>

NextParseMultiline == ParseMultilineTurn

\* the loop is synchronous code: while it can take a turn, it does
SpecParseMultiline ==
  InitParseMultiline /\ [][NextParseMultiline]_vars /\ WF_vars(ParseMultilineTurn)

(***************************************************************************)
(* C26                                                                     *)
(***************************************************************************)
\* the expressions are the parses, in order, of consecutive pieces of the
\* stream that leave nothing of it out
RECURSIVE Covers(_, _, _)
Covers(stream, expressions, opts) ==
  IF expressions = <<>> THEN stream = <<>>
  ELSE \E k \in 1..Len(stream) :
         /\ Parse(exprParser_, SubSeq(stream, 1, k), opts) = Ok(<<expressions[1], <<>>>>)
         /\ Covers(SubSeq(stream, k + 1, Len(stream)), Tail(expressions), opts)

\* a turn after which the loop goes on took at least one token off the front
\* of the stream and pushed the parse of the tokens it took
TurnConsumes ==
  (multiResult' = none /\ <<multiStream, multiExpressions>>' # <<multiStream, multiExpressions>>)
    => LET k == Len(multiStream) - Len(multiStream')
       IN /\ k >= 1
          /\ multiStream' = SubSeq(multiStream, k + 1, Len(multiStream))
          /\ Len(multiExpressions') = Len(multiExpressions) + 1
          /\ SubSeq(multiExpressions', 1, Len(multiExpressions)) = multiExpressions
          /\ Parse(exprParser_, SubSeq(multiStream, 1, k), closureOptions)
               = Ok(<<Last(multiExpressions'), <<>>>>)

\* what parseMultiline returned: a parse error, or the expressions that cover
\* the stream it was called with; it is what the function called by
\* runMultiline returns on that stream
ResultCovers ==
  multiResult # none
    => /\ ~IsThrow(multiResult)
       /\ multiResult = parseMultiline(multiInput, closureOptions)
       /\ IF IsOk(multiResult)
            THEN /\ multiStream = <<>>
                 /\ multiResult.ok = multiExpressions
                 /\ Covers(multiInput, multiResult.ok, closureOptions)
            ELSE multiResult.err.type = "parseError"

MaxReplEvents == 3

\* formatPrompt(), the Greek letter spelled out and the colour left out
formatPrompt == "lambda > "

\* the query of rl.question
exitQuery == "Exit [y/n]? "

\* the lines typed at the prompt
ReplLines == {":a .= 1", "a", " ", "nowhere"}

\* the lines typed after the query
ReplAnswers == {"y", "Y", "yes", "n", "", " y", "YES", ":a .= 5"}

Sigint == [signal |-> "SIGINT"]

Line(input) == [line |-> input]

\* the test of the question callback with any answer that begins with a y
exitsOnFirstLetter(answer) == charAt(answer, 1) \in {"y", "Y"}

\* ['y', 'Y', 'yes'].includes(answer)
exits(answer) == includes(<<"y", "Y", "yes">>, answer)

\* readEvalPrintLoop() has returned: the interpreter is made, the listeners
\* are set and the prompt is written
InitRepl ==
  /\ InterpreterMade
  /\ YardIdle
  /\ ParserMade
  /\ madeLambda = none
  /\ NoMultilineParse
  /\ code = ""
  /\ includeWs = FALSE
  /\ NothingLexed
  /\ NoCombParser
  /\ NothingUnparsed
  /\ replState = "reading"
  /\ replIn = <<>>
  /\ replOut = <<[write |-> formatPrompt]>>

\* the 'SIGINT' listener: rl.question writes the query
ReplSigint ==
  /\ replState \in {"reading", "asking"}
  /\ Len(replIn) < MaxReplEvents
  /\ replIn' = Append(replIn, Sigint)
  /\ replOut' = Append(replOut, [write |-> exitQuery])
  /\ replState' = "asking"
  /\ UNCHANGED <<interpVars, exceptRepl>>

\* the callback of rl.question
ReplAnswer(answer) ==
  /\ replState = "asking"
  /\ Len(replIn) < MaxReplEvents
  /\ replIn' = Append(replIn, Line(answer))
  /\ IF exits(answer)
       THEN /\ replState' = "exited"
            /\ UNCHANGED replOut
       ELSE /\ replState' = "reading"
            /\ replOut' = Append(replOut, [write |-> formatPrompt])
  /\ UNCHANGED <<interpVars, exceptRepl>>

\* the 'line' listener: runCode on a line that is not blank, console.log of
\* the error ([error |-> e] is the call with printError(e)) or of every value
\* ([print |-> v] is the call with prettyPrint(v, colors)), then the prompt
ReplLine(input) ==
  LET logged(out) ==
        IF IsOk(out.r) THEN [i \in 1..Len(out.r.ok) |-> [print |-> out.r.ok[i]]]
        ELSE <<[error |-> out.r]>>
      done(out) ==
        /\ rootNames' = out.st.names
        /\ Stored(out.st)
        /\ history' = history \o out.ran
        /\ lastResult' = out.r
        /\ lastLog' = out.log
        /\ lines' = Append(lines, input)
        /\ replOut' = replOut \o logged(out) \o <<[write |-> formatPrompt]>>
  IN /\ replState = "reading"
     /\ Len(replIn) < MaxReplEvents
     /\ replIn' = Append(replIn, Line(input))
     /\ IF trim(input) # ""
          THEN done(runMultiline(input, closureOptions, Store))
          ELSE /\ replOut' = Append(replOut, [write |-> formatPrompt])
               /\ UNCHANGED interpVars
     /\ UNCHANGED <<replState, exceptRepl>>

NextRepl ==
  \/ ReplSigint
  \/ \E answer \in ReplAnswers : ReplAnswer(answer)
  \/ \E input \in ReplLines : ReplLine(input)

SpecRepl == InitRepl /\ [][NextRepl]_vars

(***************************************************************************)
(* C28                                                                     *)
(***************************************************************************)
\* the session waits for a line at the prompt / for the answer to the query
Reading == replState = "reading"

Asking == replState = "asking"

\* the event received in this step
Received == Last(replIn')

\* a SIGINT received while Reading writes the query and nothing else, and the
\* session waits for the answer
SigintAsks ==
  (Reading /\ "signal" \in DOMAIN Received)
    => /\ replOut' = Append(replOut, [write |-> exitQuery])
       /\ SubSeq(exitQuery, 1, 11) = "Exit [y/n]?"
       /\ Asking'

\* the answers y, Y and yes end the process, with nothing written and nothing
\* received afterwards; any other answer leaves the session Reading, the
\* prompt written; no answer is evaluated
AnswerDecides ==
  (Asking /\ "line" \in DOMAIN Received)
    => /\ interpVars' = interpVars
       /\ IF Received.line \in {"y", "Y", "yes"}
            THEN replState' = "exited" /\ replOut' = replOut
            ELSE Reading' /\ replOut' = Append(replOut, [write |-> formatPrompt])

\* C28: in the REPL session a SIGINT received while the session waits for a
\* line writes the query "Exit [y/n]? "; the answers y, Y and yes terminate the
\* process (nothing happens afterwards), and any other answer returns the
\* session to waiting for a line with the interpreter's environment unchanged.
C28_SigintAsksAndAnswerDecides ==
  [][replState # "exited" /\ SigintAsks /\ AnswerDecides]_vars

\* a is bound by the first line; after a SIGINT the answer `:a .= 5` is not
\* evaluated and the session reads the next line
C28_Witness ==
  /\ replIn = <<Line(":a .= 1"), Sigint, Line(":a .= 5")>>
  /\ Reading
  /\ Len(history) = 1
  /\ lines = <<":a .= 1">>
  /\ Last(replOut) = [write |-> formatPrompt]
  /\ replOut[Len(replOut) - 1] = [write |-> exitQuery]

\* after a SIGINT the answer yes ended the process
C28_Exited ==
  /\ replIn = <<Line("a"), Sigint, Line("yes")>>
  /\ replState = "exited"

=============================================================================
